---- MODULE Spec2Model ----
(***************************************************************************)
(* A model of three subsystems of the JMAP server:                         *)
(*   - the per-peer RPC task (src/src/cluster/rpc/peer.rs),                *)
(*   - the raft log and the change log kept in the Logs column family      *)
(*     (src/components/store/src/raft.rs),                                 *)
(*   - the merge of change records, PendingChanges::deserialize            *)
(*     (src/components/store/src/raft.rs).                                 *)
(* Each subsystem has its own specification (PeerSpec, RaftSpec,           *)
(* PendingSpec, ChangesSpec); a specification leaves the variables of the  *)
(* other subsystems at their initial values.                               *)
(***************************************************************************)
EXTENDS Integers, Sequences, FiniteSets, TLC

(***************************************************************************)
(* Bounds of the model.                                                    *)
(***************************************************************************)
\* Messages the senders put in the peer task's mailbox in one behaviour.
MaxMsgs == 2
\* Messages the mailbox holds at once (the channel is bounded).
MaxMailbox == 1
\* Failed connection attempts beyond RPC_MAX_CONNECT_ATTEMPTS that are followed.
MaxExtraAttempts == 1
\* Largest raft log index handed out or stored.
MaxIndex == 1
\* Keys the Logs column family holds at once.
MaxLogKeys == 2
\* Ids one change record lists (inserts, updates and deletes together).
MaxRecordIds == 2
\* Change records merged into one PendingChanges accumulator.
MaxRecords == 2
\* Threads that call assign_raft_id concurrently.
MaxThreads == 3
\* assign_raft_id calls made in one behaviour.
MaxCalls == 4
\* Ids one mail_get request lists.
MaxIds == 3

\* Values one instance of a list-valued header holds.
MaxValues == 2

\* Values encoded one after the other into one buffer.
MaxEncoded == 2

\* Changes of one entry that is written and read back.
MaxChanges == 2

\* Consecutive failed connection attempts of the backoff.
MaxFailures == 64

\* Milliseconds of a backoff delay whose wait is followed tick by tick.
MaxDelayMs == 3

\* Clock ticks to the millisecond.
TicksPerMs == 2

\* Messages refused during one backoff wait.
MaxRejected == 3

\* Blob ids one copy_blob request lists.
MaxBlobIds == 2

\* properties named by one Email/get request
MaxProperties == 2

\* writes committed to the Mail collection while Email/get runs
MaxWrites == 3

\* nodes of a body structure
MaxNodes == 4

VARIABLES
    \* ---- peer task (peer.rs) ----
    pc,                  \* the await the task is suspended at
    conn_,               \* conn_.is_some()
    is_online,           \* the task's local flag
    online,              \* value held by the online watch channel
    message,             \* the pending message
    connection_attempts, \* failed attempts of the current 'retry loop
    mailbox,             \* event_rx: messages sent and not yet received
    senders,             \* some mpsc::Sender of the mailbox is still alive
    next_id,             \* id the next sent message gets (history)
    failed_calls,        \* id -> number of failed() calls on that message
    reply,               \* id -> what was sent on the message's response_tx
    main_events,         \* ids whose response went to main_tx as RpcResponse
    sent,                \* messages passed to send_rpc
    discarded,           \* messages the task has consumed or dropped
    rpc_error,           \* a transport error happened, no connect succeeded since
    taken,               \* the message last bound to `message` at line 43 or 137
    \* ---- store (raft.rs) ----
    logs,                \* the Logs column family: key -> value
    raft_term,           \* JMAPStore::raft_term
    raft_index,          \* JMAPStore::raft_index
    assigned,            \* RaftIds assign_raft_id has returned (history)
    raft_lookup,         \* the last get_prev_raft_id / get_next_raft_id call and its result
    changes_call,        \* the last get_pending_changes call and its result
    returned,            \* (account, collection) -> the greatest ChangeId the
                         \* get_pending_changes calls made so far returned, or -1
    returned_now,        \* the same, for the calls made since the last write to the
                         \* column family (history)
    \* ---- PendingChanges (raft.rs) ----
    pending,             \* a PendingChanges accumulator
    pending_tombstones,  \* the tombstone bitmap its caller supplies
    \* ---- get_raft_entries (raft.rs) ----
    entries_call,        \* the last get_raft_entries call and its result
    \* ---- concurrent assign_raft_id calls (raft.rs) ----
    assign_pc,           \* thread -> where it is in assign_raft_id
    assign_term,         \* thread -> the term it loaded at line 201
    handed,              \* the RaftIds returned, in the order of the fetch_adds,
                         \* each with the thread it was returned to (history)
    \* ---- a change record merged twice (raft.rs) ----
    merged_once,         \* the accumulator after the first merge of the record
    merged_twice,        \* the accumulator after the second merge of the record
    \* ---- mail_get (mail/get.rs) ----
    mail_docs,           \* document id -> its presence in the Mail collection and
                         \* its MESSAGE_DATA and MESSAGE_RAW blobs
    mail_pc,             \* "idle", or "responded" while a response is being returned
    mail_call,           \* the mail_get request in progress and its outcome
    \* ---- JSON header transforms (mail/get.rs) ----
    json_call,           \* the transform called, its arguments and its result
    json_back,           \* the result converted back to the stored form
    \* ---- LEB128 at each width (leb128.rs) ----
    leb_call,            \* the values encoded, the bytes, and what was decoded so far
    \* ---- Entry wire format (raft.rs) ----
    wire_call,           \* the entry written, its bytes, and what was read back
    \* ---- backoff (peer.rs) ----
    backoff,             \* the failed attempts in a row and the delay computed after the last
    \* ---- backoff wait (peer.rs) ----
    wait,                \* the backoff wait: its clock, the delay left and the messages received
    \* ---- copy_blob (api/blob.rs) ----
    copy_call,           \* the copy_blob request, the blob store it ran against and its response
    \* ---- header properties of mail_get ----
    header_call,         \* the message, the properties and the result of one header lookup
    \* ---- mail_get beside writes to the collection ----
    sync_docs,           \* the version of each Mail document, 0 when it does not exist
    sync_log,            \* the documents as of each committed change id
    sync_get,            \* the Email/get call in progress
    \* ---- add_body_structure ----
    body                 \* the call of add_body_structure in progress

peer_vars == <<pc, conn_, is_online, online, message, connection_attempts, mailbox,
               senders, next_id, failed_calls, reply, main_events, sent, discarded,
               rpc_error, taken>>

store_vars == <<logs, raft_term, raft_index, assigned, raft_lookup, changes_call, returned,
               returned_now>>

pending_vars == <<pending, pending_tombstones>>

entries_vars == <<entries_call>>

assign_vars == <<assign_pc, assign_term, handed>>

repeat_vars == <<merged_once, merged_twice>>

mail_vars == <<mail_docs, mail_pc, mail_call>>

json_vars == <<json_call, json_back>>

leb_vars == <<leb_call>>

wire_vars == <<wire_call>>

backoff_vars == <<backoff>>

wait_vars == <<wait>>

copy_vars == <<copy_call>>

headers_vars == <<header_call>>

sync_vars == <<sync_docs, sync_log, sync_get>>

body_vars == <<body>>

vars == <<peer_vars, store_vars, pending_vars, entries_vars, assign_vars, repeat_vars,
          mail_vars, json_vars, leb_vars, wire_vars, backoff_vars, wait_vars, copy_vars,
          headers_vars, sync_vars, body_vars>>

\* What the steps of one subsystem leave alone.
other_than_peer ==
    <<store_vars, pending_vars, entries_vars, assign_vars, repeat_vars, mail_vars,
      json_vars, leb_vars, wire_vars, backoff_vars, wait_vars, copy_vars, headers_vars,
      sync_vars, body_vars>>
other_than_store ==
    <<peer_vars, pending_vars, entries_vars, assign_vars, repeat_vars, mail_vars,
      json_vars, leb_vars, wire_vars, backoff_vars, wait_vars, copy_vars, headers_vars,
      sync_vars, body_vars>>
other_than_pending ==
    <<peer_vars, store_vars, entries_vars, assign_vars, repeat_vars, mail_vars,
      json_vars, leb_vars, wire_vars, backoff_vars, wait_vars, copy_vars, headers_vars,
      sync_vars, body_vars>>
other_than_mail ==
    <<peer_vars, store_vars, pending_vars, entries_vars, assign_vars, repeat_vars,
      json_vars, leb_vars, wire_vars, backoff_vars, wait_vars, copy_vars, headers_vars,
      sync_vars, body_vars>>
other_than_json ==
    <<peer_vars, store_vars, pending_vars, entries_vars, assign_vars, repeat_vars,
      mail_vars, leb_vars, wire_vars, backoff_vars, wait_vars, copy_vars, headers_vars,
      sync_vars, body_vars>>
other_than_leb ==
    <<peer_vars, store_vars, pending_vars, entries_vars, assign_vars, repeat_vars,
      mail_vars, json_vars, wire_vars, backoff_vars, wait_vars, copy_vars, headers_vars,
      sync_vars, body_vars>>
other_than_wire ==
    <<peer_vars, store_vars, pending_vars, entries_vars, assign_vars, repeat_vars,
      mail_vars, json_vars, leb_vars, backoff_vars, wait_vars, copy_vars, headers_vars,
      sync_vars, body_vars>>
other_than_entries ==
    <<peer_vars, store_vars, pending_vars, assign_vars, repeat_vars, mail_vars,
      json_vars, leb_vars, wire_vars, backoff_vars, wait_vars, copy_vars, headers_vars,
      sync_vars, body_vars>>
other_than_backoff ==
    <<peer_vars, store_vars, pending_vars, entries_vars, assign_vars, repeat_vars,
      mail_vars, json_vars, leb_vars, wire_vars, wait_vars, copy_vars, headers_vars,
      sync_vars, body_vars>>
other_than_wait ==
    <<peer_vars, store_vars, pending_vars, entries_vars, assign_vars, repeat_vars,
      mail_vars, json_vars, leb_vars, wire_vars, backoff_vars, copy_vars, headers_vars,
      sync_vars, body_vars>>
other_than_copy ==
    <<peer_vars, store_vars, pending_vars, entries_vars, assign_vars, repeat_vars,
      mail_vars, json_vars, leb_vars, wire_vars, backoff_vars, wait_vars, headers_vars,
      sync_vars, body_vars>>
other_than_headers ==
    <<peer_vars, store_vars, pending_vars, entries_vars, assign_vars, repeat_vars,
      mail_vars, json_vars, leb_vars, wire_vars, backoff_vars, wait_vars, copy_vars,
      sync_vars, body_vars>>
other_than_sync ==
    <<peer_vars, store_vars, pending_vars, entries_vars, assign_vars, repeat_vars,
      mail_vars, json_vars, leb_vars, wire_vars, backoff_vars, wait_vars, copy_vars,
      headers_vars, body_vars>>
other_than_body ==
    <<peer_vars, store_vars, pending_vars, entries_vars, assign_vars, repeat_vars,
      mail_vars, json_vars, leb_vars, wire_vars, backoff_vars, wait_vars, copy_vars,
      headers_vars, sync_vars>>

(***************************************************************************)
(* The peer RPC task.                                                      *)
(***************************************************************************)
\* Failed connection attempts after which the pending message is given up.
RPC_MAX_CONNECT_ATTEMPTS == 5

MaxAttempts == RPC_MAX_CONNECT_ATTEMPTS + MaxExtraAttempts

\* Request variants the task tells apart; "Other" is any other variant.
Requests == {"Ping", "UpdatePeers", "Other"}

RpcEvent == [id : 1..MaxMsgs, kind : {"NeedResponse", "FireAndForget"}, request : Requests]

\* RpcEvent::FireAndForget { request: Request::None }, substituted at line 103.
Placeholder == [id |-> 0, kind |-> "FireAndForget", request |-> "None"]

\* No message is held (the binding `message` does not exist at line 37).
NoMessage == [id |-> 0, kind |-> "none", request |-> "None"]

\* The pattern of line 132.
IsGossip(m) == m.kind = "FireAndForget" /\ m.request \in {"UpdatePeers", "Ping"}

\* message.failed(): the call is recorded against the message.
failed(calls, m) == [calls EXCEPT ![m.id] = @ + 1]

\* response_tx.send(r) of a NeedResponse message.
response_tx_send(rs, m, r) == [rs EXCEPT ![m.id] = Append(@, r)]

PeerInit ==
    /\ pc = "main"
    /\ conn_ = FALSE
    /\ is_online = FALSE
    /\ online = FALSE
    /\ message = NoMessage
    /\ connection_attempts = 0
    /\ mailbox = <<>>
    /\ senders = TRUE
    /\ next_id = 1
    /\ failed_calls = [i \in 0..MaxMsgs |-> 0]
    /\ reply = [i \in 0..MaxMsgs |-> <<>>]
    /\ main_events = {}
    /\ sent = {}
    /\ discarded = {}
    /\ rpc_error = FALSE
    /\ taken = NoMessage

\* A holder of event_tx sends a message.
Enqueue(kind, request) ==
    /\ senders
    /\ pc # "exit"
    /\ next_id <= MaxMsgs
    /\ Len(mailbox) < MaxMailbox
    /\ mailbox' = Append(mailbox, [id |-> next_id, kind |-> kind, request |-> request])
    /\ next_id' = next_id + 1
    /\ UNCHANGED <<pc, conn_, is_online, online, message, connection_attempts, senders,
                   failed_calls, reply, main_events, sent, discarded, rpc_error, taken>>
    /\ UNCHANGED other_than_peer

\* The last mpsc::Sender of the mailbox is dropped.
DropSenders ==
    /\ senders
    /\ senders' = FALSE
    /\ UNCHANGED <<pc, conn_, is_online, online, message, connection_attempts, mailbox,
                   next_id, failed_calls, reply, main_events, sent, discarded, rpc_error,
                   taken>>
    /\ UNCHANGED other_than_peer

\* Line 43: a message is received in the main loop; lines 59-62.
RecvMessage ==
    /\ pc = "main"
    /\ mailbox # <<>>
    /\ message' = Head(mailbox)
    /\ taken' = Head(mailbox)
    /\ mailbox' = Tail(mailbox)
    /\ connection_attempts' = 0
    /\ IF conn_
       THEN /\ pc' = "send_rpc"
            /\ sent' = sent \cup {Head(mailbox)}
       ELSE /\ pc' = "retry"
            /\ sent' = sent
    /\ UNCHANGED <<conn_, is_online, online, senders, next_id, failed_calls, reply,
                   main_events, discarded, rpc_error>>
    /\ UNCHANGED other_than_peer

\* Line 44: the mailbox is closed and empty.
RecvNone ==
    /\ pc = "main"
    /\ mailbox = <<>>
    /\ ~senders
    /\ pc' = "exit"
    /\ UNCHANGED <<conn_, is_online, online, message, connection_attempts, mailbox,
                   senders, next_id, failed_calls, reply, main_events, sent, discarded,
                   rpc_error, taken>>
    /\ UNCHANGED other_than_peer

\* Line 48: RPC_INACTIVITY_TIMEOUT elapsed with no message.
InactivityTimeout ==
    /\ pc = "main"
    /\ mailbox = <<>>
    /\ senders
    /\ conn_' = FALSE
    /\ UNCHANGED <<pc, is_online, online, message, connection_attempts, mailbox,
                   senders, next_id, failed_calls, reply, main_events, sent, discarded,
                   rpc_error, taken>>
    /\ UNCHANGED other_than_peer

\* Line 86 without its test: the pending message is sent after any connect.
MutMayStillSend(attempts) == TRUE

\* The test of line 86.
MayStillSend(attempts) == attempts < RPC_MAX_CONNECT_ATTEMPTS

\* Line 75: connect_peer returned a connection.
ConnectOk ==
    /\ pc = "retry"
    /\ conn_' = TRUE
    /\ is_online' = TRUE
    /\ online' = (IF ~is_online THEN TRUE ELSE online)
    /\ rpc_error' = FALSE
    /\ IF MayStillSend(connection_attempts)
       THEN /\ pc' = "send_rpc"
            /\ sent' = sent \cup {message}
            /\ UNCHANGED <<message, discarded>>
       ELSE /\ pc' = "main"
            /\ discarded' = discarded \cup {message}
            /\ message' = NoMessage
            /\ sent' = sent
    /\ UNCHANGED <<connection_attempts, mailbox, senders, next_id, failed_calls, reply,
                   main_events, taken>>
    /\ UNCHANGED other_than_peer

\* Line 99 with >= for ==: every failed attempt from the limit on gives up.
MutGivesUp(attempts) == attempts >= RPC_MAX_CONNECT_ATTEMPTS

\* The test of line 99.
GivesUp(attempts) == attempts = RPC_MAX_CONNECT_ATTEMPTS

\* Line 95: connect_peer failed (refused, timed out, or not answered with Pong).
ConnectErr ==
    /\ pc = "retry"
    /\ connection_attempts < MaxAttempts
    /\ connection_attempts' = connection_attempts + 1
    /\ IF GivesUp(connection_attempts')
       THEN /\ failed_calls' = failed(failed_calls, message)
            /\ discarded' = discarded \cup {message}
            /\ message' = Placeholder
       ELSE UNCHANGED <<failed_calls, discarded, message>>
    /\ rpc_error' = TRUE
    /\ pc' = "wait"
    /\ UNCHANGED <<conn_, is_online, online, mailbox, senders, next_id, reply,
                   main_events, sent, taken>>
    /\ UNCHANGED other_than_peer

\* Line 132: a gossip message arrives during the backoff wait.
WaitGossip ==
    /\ pc = "wait"
    /\ mailbox # <<>>
    /\ IsGossip(Head(mailbox))
    /\ discarded' = discarded \cup {message}
    /\ message' = Head(mailbox)
    /\ taken' = Head(mailbox)
    /\ mailbox' = Tail(mailbox)
    /\ connection_attempts' = 0
    /\ pc' = "retry"
    /\ UNCHANGED <<conn_, is_online, online, senders, next_id, failed_calls, reply,
                   main_events, sent, rpc_error>>
    /\ UNCHANGED other_than_peer

\* Line 141: any other message arrives during the backoff wait; lines 159-164:
\* `expired` is next_attempt_ms <= elapsed_ms.
WaitReject(expired) ==
    /\ pc = "wait"
    /\ mailbox # <<>>
    /\ ~IsGossip(Head(mailbox))
    /\ failed_calls' = failed(failed_calls, Head(mailbox))
    /\ discarded' = discarded \cup {Head(mailbox)}
    /\ mailbox' = Tail(mailbox)
    /\ pc' = (IF expired THEN "retry" ELSE "wait")
    /\ UNCHANGED <<conn_, is_online, online, message, connection_attempts, senders,
                   next_id, reply, main_events, sent, rpc_error, taken>>
    /\ UNCHANGED other_than_peer

\* Line 147: the mailbox is closed and empty during the backoff wait.
WaitNone ==
    /\ pc = "wait"
    /\ mailbox = <<>>
    /\ ~senders
    /\ pc' = "exit"
    /\ discarded' = discarded \cup {message}
    /\ message' = NoMessage
    /\ UNCHANGED <<conn_, is_online, online, connection_attempts, mailbox, senders,
                   next_id, failed_calls, reply, main_events, sent, rpc_error, taken>>
    /\ UNCHANGED other_than_peer

\* Line 152: the backoff delay elapsed.
WaitTimeout ==
    /\ pc = "wait"
    /\ mailbox = <<>>
    /\ senders
    /\ pc' = "retry"
    /\ UNCHANGED <<conn_, is_online, online, message, connection_attempts, mailbox,
                   senders, next_id, failed_calls, reply, main_events, sent, discarded,
                   rpc_error, taken>>
    /\ UNCHANGED other_than_peer

\* Lines 180 and 195: send_rpc returned the peer's response.
SendOk ==
    /\ pc = "send_rpc"
    /\ IF message.kind = "NeedResponse"
       THEN /\ reply' = response_tx_send(reply, message, "Response")
            /\ UNCHANGED main_events
       ELSE /\ main_events' = main_events \cup {message.id}
            /\ UNCHANGED reply
    /\ discarded' = discarded \cup {message}
    /\ message' = NoMessage
    /\ pc' = "main"
    /\ UNCHANGED <<conn_, is_online, online, connection_attempts, mailbox, senders,
                   next_id, failed_calls, sent, rpc_error, taken>>
    /\ UNCHANGED other_than_peer

\* Lines 187 and 204, then 208-215: send_rpc returned an error.
SendErr ==
    /\ pc = "send_rpc"
    /\ IF message.kind = "NeedResponse"
       THEN reply' = response_tx_send(reply, message, "None")
       ELSE UNCHANGED reply
    /\ conn_' = FALSE
    /\ is_online' = FALSE
    /\ online' = FALSE
    /\ rpc_error' = TRUE
    /\ discarded' = discarded \cup {message}
    /\ message' = NoMessage
    /\ pc' = "main"
    /\ UNCHANGED <<connection_attempts, mailbox, senders, next_id, failed_calls,
                   main_events, sent, taken>>
    /\ UNCHANGED other_than_peer

\* The steps the task takes on its own: its timers, its mailbox, and connect_peer,
\* which always returns because it carries the RPC_TIMEOUT_MS deadline (line 226).
TaskStep ==
    \/ RecvMessage
    \/ RecvNone
    \/ InactivityTimeout
    \/ ConnectOk
    \/ ConnectErr
    \/ WaitGossip
    \/ \E expired \in BOOLEAN : WaitReject(expired)
    \/ WaitNone
    \/ WaitTimeout

PeerNext ==
    \/ \E kind \in {"NeedResponse", "FireAndForget"}, request \in Requests :
          Enqueue(kind, request)
    \/ DropSenders
    \/ TaskStep
    \/ SendOk
    \/ SendErr

(***************************************************************************)
(* Unsigned LEB128 (leb128.rs).                                            *)
(***************************************************************************)
\* Option<T>: None, or Some(x).
None == <<>>

Some(x) == <<x>>

Unwrap(o) == o[1]

\* to_leb128_bytes: the bytes pushed for `value`, low 7 bits first.
RECURSIVE to_leb128_bytes(_)
to_leb128_bytes(value) ==
    IF value < 128
    THEN <<value>>
    ELSE <<(value % 128) + 128>> \o to_leb128_bytes(value \div 128)

\* from_leb128_it: the loop of lines 57-65 over the bytes left in the iterator;
\* yields the value and the iterator after it, or None when the bytes run out.
RECURSIVE leb128_it_loop(_, _, _)
leb128_it_loop(it, result, shift) ==
    IF it = <<>>
    THEN None
    ELSE IF Head(it) < 128
         THEN Some([value |-> result + Head(it) * (2 ^ shift), it |-> Tail(it)])
         ELSE leb128_it_loop(Tail(it), result + (Head(it) - 128) * (2 ^ shift), shift + 7)

from_leb128_it(it) == leb128_it_loop(it, 0, 0)

\* from_leb128_bytes: the loop of lines 37-47 over the slice; yields the value and
\* the number of bytes read, or None when slice.get(position) finds no byte.
RECURSIVE leb128_bytes_loop(_, _, _, _)
leb128_bytes_loop(slice, position, result, shift) ==
    IF position >= Len(slice)
    THEN None
    ELSE LET byte == slice[position + 1]
         IN  IF byte < 128
             THEN Some([value |-> result + byte * (2 ^ shift), position |-> position + 1])
             ELSE leb128_bytes_loop(slice, position + 1,
                                    result + (byte - 128) * (2 ^ shift), shift + 7)

from_leb128_bytes(slice) == leb128_bytes_loop(slice, 0, 0, 0)

(***************************************************************************)
(* Raft entries and their stored form (raft.rs).                           *)
(***************************************************************************)
Accounts == {1, 2}
\* Collection tags, as the byte each is stored as.
Collections == {0, 1}
Terms == {1, 2}

RaftId(term, index) == [term |-> term, index |-> index]

\* Entry::serialize, lines 75-91.
RECURSIVE serialize_changes(_)
serialize_changes(changes) ==
    IF changes = <<>>
    THEN <<>>
    ELSE <<Head(changes).collection>> \o to_leb128_bytes(Head(changes).change_id)
             \o serialize_changes(Tail(changes))

Mut_Entry_serialize(entry) ==
    to_leb128_bytes(entry.account_id) \o serialize_changes(entry.changes)

Entry_serialize(entry) ==
    to_leb128_bytes(entry.account_id) \o to_leb128_bytes(Len(entry.changes))
        \o serialize_changes(entry.changes)

\* The loop of lines 58-63: None when a byte is missing.
RECURSIVE deserialize_changes(_, _, _)
deserialize_changes(it, total_changes, changes) ==
    IF total_changes = 0
    THEN Some(changes)
    ELSE IF it = <<>>
         THEN None
         ELSE LET change_id == from_leb128_it(Tail(it))
              IN  IF change_id = None
                  THEN None
                  ELSE deserialize_changes(
                           Unwrap(change_id).it, total_changes - 1,
                           Append(changes, [collection |-> Head(it),
                                            change_id |-> Unwrap(change_id).value]))

\* Entry::deserialize, lines 51-71.
Entry_deserialize(value, raft_id) ==
    LET account_id == from_leb128_it(value)
    IN  IF account_id = None
        THEN None
        ELSE LET total_changes == from_leb128_it(Unwrap(account_id).it)
             IN  IF total_changes = None
                 THEN None
                 ELSE LET changes == deserialize_changes(Unwrap(total_changes).it,
                                                         Unwrap(total_changes).value, <<>>)
                      IN  IF changes = None
                          THEN None
                          ELSE Some([raft_id |-> raft_id,
                                     account_id |-> Unwrap(account_id).value,
                                     changes |-> Unwrap(changes)])

(***************************************************************************)
(* The Logs column family: keys, their order, and the store's iterator.    *)
(***************************************************************************)
CHANGE_KEY_PREFIX == 0
RAFT_KEY_PREFIX == 1

\* LogKey::serialize_raft: RAFT_KEY_PREFIX | term | index, fixed-width big-endian
\* fields, so that the byte order of keys is the order of these tuples.
serialize_raft(raft_id) == <<RAFT_KEY_PREFIX, raft_id.term, raft_id.index>>

deserialize_raft(key) == RaftId(key[2], key[3])

\* LogKey::serialize_change: CHANGE_KEY_PREFIX | account | collection | change_id.
serialize_change(account, collection, change_id) ==
    <<CHANGE_KEY_PREFIX, account, collection, change_id>>

deserialize_change_id(key) == key[4]

\* Byte-wise order of two keys.
RECURSIVE KeyLess(_, _)
KeyLess(a, b) ==
    IF b = <<>>
    THEN FALSE
    ELSE IF a = <<>>
         THEN TRUE
         ELSE IF Head(a) # Head(b)
              THEN Head(a) < Head(b)
              ELSE KeyLess(Tail(a), Tail(b))

KeyLeq(a, b) == a = b \/ KeyLess(a, b)

\* The keys of a set in ascending order.
RECURSIVE Ascending(_)
Ascending(keys) ==
    IF keys = {}
    THEN <<>>
    ELSE LET first == CHOOSE k \in keys : \A o \in keys : KeyLeq(k, o)
         IN  <<first>> \o Ascending(keys \ {first})

Reversed(seq) == [i \in 1..Len(seq) |-> seq[Len(seq) + 1 - i]]

\* db.iterator(ColumnFamily::Logs, key, direction): the stored keys from the seek
\* key on, the seek key included, in the direction asked for.
Iterator(cf, key, direction) ==
    IF direction = "Forward"
    THEN Ascending({k \in DOMAIN cf : KeyLeq(key, k)})
    ELSE Reversed(Ascending({k \in DOMAIN cf : KeyLeq(k, key)}))

\* key.starts_with(&[LogKey::RAFT_KEY_PREFIX])
IsRaftKey(key) == key[1] = RAFT_KEY_PREFIX

\* WriteOperation::set applied by db.write.
WriteSet(cf, key, value) ==
    [k \in DOMAIN cf \cup {key} |-> IF k = key THEN value ELSE cf[k]]

(***************************************************************************)
(* PendingChanges and the merge of change records (raft.rs).               *)
(* A change record is modelled after its varints are decoded: the four     *)
(* lists of JMAPIds that lines 133-157 read from the bytes.                *)
(***************************************************************************)
DocumentIds == {0, 1}
PrefixIds == {0, 1}

\* JMAPId: (prefix_id << 32) | document_id.
JMAPIds == [prefix_id : PrefixIds, document_id : DocumentIds]

get_document_id(id) == id.document_id

get_prefix_id(id) == id.prefix_id

\* PendingChanges::new, lines 106-116.
PendingChanges_new(account, collection) ==
    [account_id |-> account, collection |-> collection,
     inserts |-> {}, updates |-> {}, deletes |-> {}, tombstones |-> {}, changes |-> {}]

\* Lines 144-149: the updates of a record.
RECURSIVE apply_updates(_, _)
apply_updates(self, updates) ==
    IF updates = <<>>
    THEN self
    ELSE LET document_id == get_document_id(Head(updates))
         IN  apply_updates(
                 IF document_id \notin self.inserts
                 THEN [self EXCEPT !.updates = @ \cup {document_id}]
                 ELSE self,
                 Tail(updates))

\* Line 160: the position of the first inserted id with the document id of the
\* deleted id and another prefix id; 0 when there is none.
position(inserted_ids, document_id, prefix_id) ==
    LET hits == {i \in 1..Len(inserted_ids) :
                    /\ get_document_id(inserted_ids[i]) = document_id
                    /\ get_prefix_id(inserted_ids[i]) # prefix_id}
    IN  IF hits = {} THEN 0 ELSE CHOOSE i \in hits : \A j \in hits : i <= j

\* Vec::remove
remove_at(seq, pos) == SubSeq(seq, 1, pos - 1) \o SubSeq(seq, pos + 1, Len(seq))

\* Lines 171-178 with the delete recorded whether or not the id was a pending insert.
Mut_actual_deletion(self, document_id, tombstones) ==
    [self EXCEPT !.deletes = @ \cup {document_id}, !.updates = @ \ {document_id}]

\* Lines 171-178: an actual deletion.
actual_deletion(self, document_id, tombstones) ==
    LET removed == document_id \in self.inserts
        s1 == [self EXCEPT !.inserts = @ \ {document_id}]
        s2 == IF ~removed
              THEN [s1 EXCEPT !.deletes = @ \cup {document_id}]
              ELSE IF document_id \in tombstones
                   THEN [s1 EXCEPT !.tombstones = @ \cup {document_id}]
                   ELSE s1
    IN  [s2 EXCEPT !.updates = @ \ {document_id}]

\* Lines 164-169: a delete that pairs with an insert of the record under another
\* prefix counts as an update.
prefix_change(self, document_id) ==
    IF document_id \notin self.inserts
    THEN [self EXCEPT !.updates = @ \cup {document_id}]
    ELSE self

\* Lines 156-180: the deletes of a record; yields the accumulator and the inserted
\* ids that are left.
RECURSIVE apply_deletes(_, _, _, _)
apply_deletes(self, inserted_ids, deletes, tombstones) ==
    IF deletes = <<>>
    THEN [self |-> self, inserted_ids |-> inserted_ids]
    ELSE LET document_id == get_document_id(Head(deletes))
             pos == position(inserted_ids, document_id, get_prefix_id(Head(deletes)))
         IN  IF pos # 0
             THEN apply_deletes(prefix_change(self, document_id),
                                remove_at(inserted_ids, pos), Tail(deletes), tombstones)
             ELSE apply_deletes(actual_deletion(self, document_id, tombstones),
                                inserted_ids, Tail(deletes), tombstones)

\* Lines 182-187: the inserts of a record, applied last.
RECURSIVE apply_inserts(_, _)
apply_inserts(self, inserted_ids) ==
    IF inserted_ids = <<>>
    THEN self
    ELSE LET document_id == get_document_id(Head(inserted_ids))
         IN  apply_inserts([self EXCEPT !.inserts = @ \cup {document_id},
                                        !.deletes = @ \ {document_id}],
                           Tail(inserted_ids))

\* PendingChanges::deserialize, lines 126-192, on a well-formed record.
deserialize(self, change_id, record, tombstones) ==
    LET updated == apply_updates(self, record.updates)
        deleted == apply_deletes(updated, record.inserts, record.deletes, tombstones)
        inserted == apply_inserts(deleted.self, deleted.inserted_ids)
    IN  [inserted EXCEPT !.changes = @ \cup {change_id}]

\* Sequences over S of length n.
SeqsOfLen(S, n) == [1..n -> S]

\* The change records a log may hold: at most MaxRecordIds ids.
Records ==
    UNION {[inserts : SeqsOfLen(JMAPIds, n[1]),
            updates : SeqsOfLen(JMAPIds, n[2]),
            child_updates : {<<>>},
            deletes : SeqsOfLen(JMAPIds, n[3])] :
           n \in {m \in (0..MaxRecordIds) \X (0..MaxRecordIds) \X (0..MaxRecordIds) :
                     m[1] + m[2] + m[3] <= MaxRecordIds}}

PendingInit ==
    /\ pending = PendingChanges_new(1, 0)
    /\ pending_tombstones = {}

\* A caller creates an accumulator and reads the tombstoned ids (lines 301-314).
PendingNew(tombstones) ==
    /\ pending' = PendingChanges_new(1, 0)
    /\ pending_tombstones' = tombstones
    /\ UNCHANGED other_than_pending

\* The caller merges the next change record of the log (line 335).
PendingDeserialize(record) ==
    /\ Cardinality(pending.changes) < MaxRecords
    /\ pending' = deserialize(pending, Cardinality(pending.changes), record,
                              pending_tombstones)
    /\ UNCHANGED pending_tombstones
    /\ UNCHANGED other_than_pending

PendingNext ==
    \/ \E tombstones \in SUBSET DocumentIds : PendingNew(tombstones)
    \/ \E record \in Records : PendingDeserialize(record)

(***************************************************************************)
(* The raft log operations of JMAPStore (raft.rs).                         *)
(***************************************************************************)
\* The change logs of the model: two accounts, and two collections of one of them.
ChangeLogs == {<<1, 0>>, <<1, 1>>, <<2, 0>>}

\* No get_pending_changes call was made yet.
NoCall == [account |-> 0, collection |-> 0, from_change_id |-> None, only_ids |-> FALSE,
           result |-> PendingChanges_new(0, 0), earlier |-> -1, earlier_now |-> -1]

StoreInit ==
    /\ logs = << >>
    /\ raft_term = 1
    /\ raft_index = 0
    /\ assigned = {}
    /\ raft_lookup = [op |-> "none", key |-> RaftId(0, 0), result |-> None]
    /\ changes_call = NoCall
    /\ returned = [p \in ChangeLogs |-> -1]
    /\ returned_now = [p \in ChangeLogs |-> -1]

\* assign_raft_id, lines 199-207.
AssignRaftId ==
    /\ raft_index < MaxIndex
    /\ raft_index' = raft_index + 1
    /\ assigned' = assigned \cup {RaftId(raft_term, raft_index + 1)}
    /\ UNCHANGED <<logs, raft_term, raft_lookup, changes_call, returned, returned_now>>
    /\ UNCHANGED other_than_store

\* get_prev_raft_id and get_next_raft_id, lines 209-241.
NeighborRaftId(cf, key, direction) ==
    LET it == Iterator(cf, serialize_raft(key), direction)
    IN  IF it # <<>> /\ IsRaftKey(it[1])
        THEN Some(deserialize_raft(it[1]))
        ELSE None

get_prev_raft_id(cf, key) == NeighborRaftId(cf, key, "Backward")

get_next_raft_id(cf, key) == NeighborRaftId(cf, key, "Forward")

GetPrevRaftId(key) ==
    /\ raft_lookup' = [op |-> "prev", key |-> key, result |-> get_prev_raft_id(logs, key)]
    /\ UNCHANGED <<logs, raft_term, raft_index, assigned, changes_call, returned,
                   returned_now>>
    /\ UNCHANGED other_than_store

GetNextRaftId(key) ==
    /\ raft_lookup' = [op |-> "next", key |-> key, result |-> get_next_raft_id(logs, key)]
    /\ UNCHANGED <<logs, raft_term, raft_index, assigned, changes_call, returned,
                   returned_now>>
    /\ UNCHANGED other_than_store

\* insert_raft_entries, lines 279-292: one atomic batch of set operations.
RECURSIVE write_entries(_, _)
write_entries(cf, entries) ==
    IF entries = <<>>
    THEN cf
    ELSE write_entries(
             WriteSet(cf, serialize_raft(Head(entries).raft_id),
                      Entry_serialize(Head(entries))),
             Tail(entries))

\* The entries a caller may pass: any RaftId, one of two payloads.
RaftIds == [term : Terms, index : 0..MaxIndex]
Entries == [raft_id : RaftIds, account_id : {1}, changes : {<<>>}]
               \cup [raft_id : RaftIds, account_id : {2},
                     changes : {<<[change_id |-> 1, collection |-> 0]>>}]

RaftIdLess(a, b) == KeyLess(serialize_raft(a), serialize_raft(b))

\* A batch: one entry, or two entries in log order.
Batches ==
    {<<e>> : e \in Entries}
        \cup {<<p[1], p[2]>> : p \in {q \in Entries \X Entries :
                                         RaftIdLess(q[1].raft_id, q[2].raft_id)}}

InsertRaftEntries(entries) ==
    LET written == write_entries(logs, entries)
    IN  /\ Cardinality(DOMAIN written) <= MaxLogKeys
        /\ logs' = written
        /\ returned_now' = [p \in DOMAIN returned_now |-> -1]
        /\ UNCHANGED <<raft_term, raft_index, assigned, raft_lookup, changes_call, returned>>
        /\ UNCHANGED other_than_store

(***************************************************************************)
(* The change log operations of JMAPStore (raft.rs).                       *)
(***************************************************************************)
\* Line 316 with a prefix that ends before the collection.
MutHasChangePrefix(key, account, collection) ==
    key[1] = CHANGE_KEY_PREFIX /\ key[2] = account

\* key.starts_with(prefix), prefix = key[0..LogKey::CHANGE_ID_POS] (line 316).
HasChangePrefix(key, account, collection) ==
    key[1] = CHANGE_KEY_PREFIX /\ key[2] = account /\ key[3] = collection

\* The ChangeIds stored for (account, collection).
StoredChangeIds(cf, account, collection) ==
    {deserialize_change_id(k) : k \in {x \in DOMAIN cf : HasChangePrefix(x, account, collection)}}

SetMax(S) == CHOOSE x \in S : \A y \in S : y <= x

\* The change records the writers of the model append: an insert, an update and a
\* delete of one document.
LoggedRecords ==
    {[inserts |-> <<[prefix_id |-> 0, document_id |-> 0]>>, updates |-> <<>>,
      child_updates |-> <<>>, deletes |-> <<>>],
     [inserts |-> <<>>, updates |-> <<>>, child_updates |-> <<>>,
      deletes |-> <<[prefix_id |-> 0, document_id |-> 0]>>]}

\* A committed write appends a change record under the next ChangeId of the log.
AppendChange(account, collection, record) ==
    LET ids == StoredChangeIds(logs, account, collection)
        change_id == IF ids = {} THEN 0 ELSE SetMax(ids) + 1
    IN  /\ Cardinality(DOMAIN logs) < MaxLogKeys
        /\ logs' = WriteSet(logs, serialize_change(account, collection, change_id), record)
        /\ returned_now' = [p \in DOMAIN returned_now |-> -1]
        /\ UNCHANGED <<raft_term, raft_index, assigned, raft_lookup, changes_call, returned>>
        /\ UNCHANGED other_than_store

\* Line 332 with >= for >: the ChangeId asked from is returned as well.
MutInRange(change_id, from_change_id, is_inclusive) ==
    change_id >= from_change_id \/ (is_inclusive /\ change_id = from_change_id)

\* The test of line 332.
InRange(change_id, from_change_id, is_inclusive) ==
    change_id > from_change_id \/ (is_inclusive /\ change_id = from_change_id)

\* The loop of lines 318-346 over the keys the iterator yields.
RECURSIVE scan_changes(_, _, _, _, _, _, _)
scan_changes(cf, it, changes, from_change_id, is_inclusive, only_ids, tombstones) ==
    IF it = <<>> \/ ~HasChangePrefix(it[1], changes.account_id, changes.collection)
    THEN changes
    ELSE LET change_id == deserialize_change_id(it[1])
         IN  scan_changes(
                 cf, Tail(it),
                 IF InRange(change_id, from_change_id, is_inclusive)
                 THEN IF ~only_ids
                      THEN deserialize(changes, change_id, cf[it[1]], tombstones)
                      ELSE [changes EXCEPT !.changes = @ \cup {change_id}]
                 ELSE changes,
                 from_change_id, is_inclusive, only_ids, tombstones)

\* get_pending_changes, lines 294-349; `tombstoned` is what get_tombstoned_ids
\* returns for (account, collection).
get_pending_changes(cf, account, collection, from_change_id, only_ids, tombstoned) ==
    LET is_inclusive == from_change_id = None
        from == IF from_change_id = None THEN 0 ELSE Unwrap(from_change_id)
        tombstones == IF ~only_ids THEN tombstoned ELSE {}
        key == serialize_change(account, collection, from)
    IN  scan_changes(cf, Iterator(cf, key, "Forward"),
                     PendingChanges_new(account, collection),
                     from, is_inclusive, only_ids, tombstones)

\* Values of from_change_id: absent, or a ChangeId.
FromChangeIds == {None} \cup {Some(c) : c \in 0..(MaxLogKeys - 1)}

\* What get_tombstoned_ids may return; it is not called when only_ids is set.
TombstonedSets(only_ids) == IF only_ids THEN {{}} ELSE {{}, {0}}

GetPendingChanges(account, collection, from_change_id, only_ids, tombstoned) ==
    LET result == get_pending_changes(logs, account, collection, from_change_id,
                                      only_ids, tombstoned)
    IN  /\ changes_call' = [account |-> account, collection |-> collection,
                            from_change_id |-> from_change_id, only_ids |-> only_ids,
                            result |-> result,
                            earlier |-> returned[<<account, collection>>],
                            earlier_now |-> returned_now[<<account, collection>>]]
        /\ returned' =
               [returned EXCEPT ![<<account, collection>>] = SetMax({@} \cup result.changes)]
        /\ returned_now' =
               [returned_now EXCEPT ![<<account, collection>>] =
                                        SetMax({@} \cup result.changes)]
        /\ UNCHANGED <<logs, raft_term, raft_index, assigned, raft_lookup>>
        /\ UNCHANGED other_than_store

ChangesNext ==
    \/ \E p \in ChangeLogs, record \in LoggedRecords : AppendChange(p[1], p[2], record)
    \/ \E p \in ChangeLogs, from_change_id \in FromChangeIds, only_ids \in BOOLEAN :
          \E tombstoned \in TombstonedSets(only_ids) :
              GetPendingChanges(p[1], p[2], from_change_id, only_ids, tombstoned)

RaftNext ==
    \/ AssignRaftId
    \/ \E entries \in Batches : InsertRaftEntries(entries)
    \/ \E key \in RaftIds : GetPrevRaftId(key)
    \/ \E key \in RaftIds : GetNextRaftId(key)
    \/ AppendChange(1, 0, CHOOSE record \in LoggedRecords : TRUE)

(***************************************************************************)
(* get_raft_entries (raft.rs).                                             *)
(***************************************************************************)
\* LogIndex::MAX: the greatest value of the model's LogIndex type; stored entries
\* have smaller indices.
LogIndex_MAX == MaxIndex + 1

\* RaftId::none, lines 25-30.
RaftId_none == RaftId(0, LogIndex_MAX)

\* RaftId::is_none, lines 32-34.
is_none(raft_id) == raft_id.index = LogIndex_MAX

\* Result<Vec<Entry>>
Ok(entries) == [ok |-> TRUE, entries |-> entries]
InternalError == [ok |-> FALSE, entries |-> <<>>]

\* Line 264 with the test of from_raft_id dropped.
MutIsWanted(is_inclusive, raft_id, from_raft_id) == TRUE

\* The test of line 264.
IsWanted(is_inclusive, raft_id, from_raft_id) == is_inclusive \/ raft_id # from_raft_id

\* The loop of lines 256-275 over the keys the iterator yields.
RECURSIVE scan_entries(_, _, _, _, _, _)
scan_entries(cf, it, entries, from_raft_id, is_inclusive, num_entries) ==
    IF it = <<>> \/ ~IsRaftKey(it[1])
    THEN Ok(entries)
    ELSE LET raft_id == deserialize_raft(it[1])
         IN  IF IsWanted(is_inclusive, raft_id, from_raft_id)
             THEN LET entry == Entry_deserialize(cf[it[1]], raft_id)
                  IN  IF entry = None
                      THEN InternalError
                      ELSE IF Len(entries) + 1 = num_entries
                           THEN Ok(Append(entries, Unwrap(entry)))
                           ELSE scan_entries(cf, Tail(it), Append(entries, Unwrap(entry)),
                                             from_raft_id, is_inclusive, num_entries)
             ELSE scan_entries(cf, Tail(it), entries, from_raft_id, is_inclusive,
                               num_entries)

\* get_raft_entries, lines 243-277.
get_raft_entries(cf, from_raft_id, num_entries) ==
    LET is_inclusive == is_none(from_raft_id)
        key == IF ~is_none(from_raft_id)
               THEN serialize_raft(from_raft_id)
               ELSE serialize_raft(RaftId(0, 0))
    IN  scan_entries(cf, Iterator(cf, key, "Forward"), <<>>, from_raft_id, is_inclusive,
                     num_entries)

\* No get_raft_entries call was made yet.
NoEntriesCall == [from_raft_id |-> RaftId_none, num_entries |-> 0, result |-> Ok(<<>>)]

EntriesInit == entries_call = NoEntriesCall

\* Values of from_raft_id: a RaftId an entry may be stored under, or RaftId::none().
FromRaftIds == RaftIds \cup {RaftId_none}

GetRaftEntries(from_raft_id, num_entries) ==
    /\ entries_call' = [from_raft_id |-> from_raft_id, num_entries |-> num_entries,
                        result |-> get_raft_entries(logs, from_raft_id, num_entries)]
    /\ UNCHANGED other_than_entries

EntriesNext ==
    \/ \E entry \in Entries : InsertRaftEntries(<<entry>>)
    \/ AppendChange(1, 0, CHOOSE record \in LoggedRecords : TRUE)
    \/ \E from_raft_id \in FromRaftIds, num_entries \in 0..MaxLogKeys :
          GetRaftEntries(from_raft_id, num_entries)

(***************************************************************************)
(* assign_raft_id called by concurrent threads (raft.rs).                  *)
(***************************************************************************)
Threads == 1..MaxThreads

AssignInit ==
    /\ assign_pc = [t \in Threads |-> "idle"]
    /\ assign_term = [t \in Threads |-> 0]
    /\ handed = <<>>

\* Line 204 with a load for the fetch_add: the counter is read and not advanced.
Mut_fetch_add(value) == value

\* AtomicU64::fetch_add(1, Ordering::Relaxed): the value the counter holds after it.
fetch_add(value) == value + 1

\* Line 201: a thread enters assign_raft_id and loads raft_term.
LoadTerm(t) ==
    /\ assign_pc[t] = "idle"
    /\ Len(handed) + Cardinality({u \in Threads : assign_pc[u] = "loaded"}) < MaxCalls
    /\ assign_pc' = [assign_pc EXCEPT ![t] = "loaded"]
    /\ assign_term' = [assign_term EXCEPT ![t] = raft_term]
    /\ UNCHANGED <<handed, store_vars>>
    /\ UNCHANGED <<peer_vars, pending_vars, entries_vars, repeat_vars, mail_vars,
                   json_vars, leb_vars, wire_vars, backoff_vars, wait_vars, copy_vars,
                   headers_vars, sync_vars, body_vars>>

\* Lines 202-205: the thread's fetch_add on raft_index, one atomic step; the RaftId
\* is the loaded term with the previous value of the counter plus one.
FetchAddIndex(t) ==
    /\ assign_pc[t] = "loaded"
    /\ raft_index' = fetch_add(raft_index)
    /\ handed' = Append(handed, [thread |-> t,
                                 raft_id |-> RaftId(assign_term[t], raft_index + 1)])
    /\ assigned' = assigned \cup {RaftId(assign_term[t], raft_index + 1)}
    /\ assign_pc' = [assign_pc EXCEPT ![t] = "idle"]
    /\ UNCHANGED <<assign_term, logs, raft_term, raft_lookup, changes_call, returned,
                   returned_now>>
    /\ UNCHANGED <<peer_vars, pending_vars, entries_vars, repeat_vars, mail_vars,
                   json_vars, leb_vars, wire_vars, backoff_vars, wait_vars, copy_vars,
                   headers_vars, sync_vars, body_vars>>

AssignNext ==
    \/ \E t \in Threads : LoadTerm(t)
    \/ \E t \in Threads : FetchAddIndex(t)

(***************************************************************************)
(* A change record applied twice (raft.rs).                                *)
(***************************************************************************)
RepeatInit ==
    /\ merged_once = PendingChanges_new(1, 0)
    /\ merged_twice = PendingChanges_new(1, 0)

\* The caller merges a change record of the log into the accumulator, and merges
\* the same record (same ChangeId, same bytes, same tombstone bitmap) once more.
PendingDeserializeTwice(record) ==
    LET change_id == Cardinality(pending.changes)
        once == deserialize(pending, change_id, record, pending_tombstones)
        twice == deserialize(once, change_id, record, pending_tombstones)
    IN  /\ Cardinality(pending.changes) < MaxRecords
        /\ merged_once' = once
        /\ merged_twice' = twice
        /\ pending' = twice
        /\ UNCHANGED pending_tombstones
        /\ UNCHANGED <<peer_vars, store_vars, entries_vars, assign_vars, mail_vars,
                       json_vars, leb_vars, wire_vars, backoff_vars, wait_vars, copy_vars,
                       headers_vars, sync_vars, body_vars>>

RepeatNext ==
    \/ \E tombstones \in SUBSET DocumentIds : PendingNew(tombstones)
    \/ \E record \in Records : PendingDeserialize(record)
    \/ \E record \in Records : PendingDeserializeTwice(record)

(***************************************************************************)
(* mail_get (jmap_mail/src/mail/get.rs).                                   *)
(***************************************************************************)
\* self.config.max_objects_in_get
max_objects_in_get == 2

\* MessageData::deserialize and MessageOutline::deserialize: a section decodes when
\* it starts with the byte 1.
MessageData_deserialize(bytes) ==
    IF bytes # <<>> /\ bytes[1] = 1 THEN Some(bytes) ELSE None

MessageOutline_deserialize(bytes) ==
    IF bytes # <<>> /\ bytes[1] = 1 THEN Some(bytes) ELSE None

\* The MESSAGE_DATA blob ingest writes: varint length, message data, outline.
WellFormedBlob == <<1, 1, 1>>

\* MESSAGE_DATA blobs of a damaged store: empty, a varint cut short, undecodable
\* message data, a length beyond the end of the blob, no outline.
DamagedBlobs == {<<>>, <<129>>, <<1, 0, 1>>, <<2, 1>>, <<1, 1>>}

\* A document of the Mail collection that is not live.
NoDocument == [live |-> FALSE, data |-> None, raw |-> FALSE]

\* JMAPId::to_jmap_string
to_jmap_string(jmap_id) == <<get_prefix_id(jmap_id), get_document_id(jmap_id)>>

\* get_document_ids(account, Collection::Mail), line 198.
get_document_ids(docs) == {d \in DOMAIN docs : docs[d].live}

\* Line 235, with an id that is already listed left out.
Mut_not_found_push(not_found, jmap_id) ==
    IF \E i \in 1..Len(not_found) : not_found[i] = to_jmap_string(jmap_id)
    THEN not_found
    ELSE Append(not_found, to_jmap_string(jmap_id))

\* Line 235.
not_found_push(not_found, jmap_id) == Append(not_found, to_jmap_string(jmap_id))

\* Lines 239-293: the blobs of one document are read and decoded; the outcome is
\* "Ok", the error returned, or "Panic" when a slice index is out of range.
read_message(document, fetch_raw) ==
    IF document.data = None
    THEN "DataCorruption"
    ELSE LET message_data_bytes == Unwrap(document.data)
             length == from_leb128_bytes(message_data_bytes)
         IN  IF length = None
             THEN "DataCorruption"
             ELSE LET message_data_len == Unwrap(length).value
                      read_bytes == Unwrap(length).position
                  IN  IF read_bytes + message_data_len > Len(message_data_bytes)
                      THEN "Panic"
                      ELSE IF MessageData_deserialize(
                                  SubSeq(message_data_bytes, read_bytes + 1,
                                         read_bytes + message_data_len)) = None
                           THEN "DataCorruption"
                           ELSE IF fetch_raw = "None"
                                THEN "Ok"
                                ELSE IF \/ ~document.raw
                                        \/ MessageOutline_deserialize(
                                               SubSeq(message_data_bytes,
                                                      read_bytes + message_data_len + 1,
                                                      Len(message_data_bytes))) = None
                                     THEN "DataCorruption"
                                     ELSE "Ok"

\* A request that ended without a response object.
Failure(outcome) == [outcome |-> outcome, list |-> <<>>, notFound |-> <<>>]

\* Lines 229-658: the loop over the requested ids. `store_fails`: a store read of
\* the properties loop (lines 300-655) returns an error.
RECURSIVE get_loop(_, _, _, _, _, _)
get_loop(request_ids, docs, fetch_raw, store_fails, not_found, results) ==
    IF request_ids = <<>>
    THEN [outcome |-> "Ok", list |-> results, notFound |-> not_found]
    ELSE LET jmap_id == Head(request_ids)
             document_id == get_document_id(jmap_id)
         IN  IF document_id \notin get_document_ids(docs)
             THEN get_loop(Tail(request_ids), docs, fetch_raw, store_fails,
                           not_found_push(not_found, jmap_id), results)
             ELSE LET read == read_message(docs[document_id], fetch_raw)
                  IN  IF read # "Ok"
                      THEN Failure(read)
                      ELSE IF store_fails
                           THEN Failure("InternalError")
                           ELSE get_loop(Tail(request_ids), docs, fetch_raw, store_fails,
                                         not_found,
                                         Append(results, [id |-> to_jmap_string(jmap_id)]))

\* Lines 208-224: without ids, the first max_objects_in_get live documents, each
\* joined with its thread id (0 in the model).
RECURSIVE enumerate_ids(_, _)
enumerate_ids(document_ids, left) ==
    IF document_ids = {} \/ left = 0
    THEN <<>>
    ELSE LET first == CHOOSE d \in document_ids : \A o \in document_ids : d <= o
         IN  <<[prefix_id |-> 0, document_id |-> first]>>
                 \o enumerate_ids(document_ids \ {first}, left - 1)

\* mail_get, lines 133-669.
mail_get(docs, ids, fetch_raw, store_fails) ==
    IF ids # None /\ Len(Unwrap(ids)) > max_objects_in_get
    THEN Failure("RequestTooLarge")
    ELSE get_loop(IF ids # None
                  THEN Unwrap(ids)
                  ELSE enumerate_ids(get_document_ids(docs), max_objects_in_get),
                  docs, fetch_raw, store_fails, <<>>, <<>>)

\* The ids a request may list.
MailIds == {[prefix_id |-> 0, document_id |-> d] : d \in DocumentIds}
               \cup {[prefix_id |-> 1, document_id |-> 0]}

RequestIds == {None} \cup {Some(ids) : ids \in UNION {SeqsOfLen(MailIds, n) : n \in 0..MaxIds}}

FetchRaw == {"Header", "All", "None"}

NoMailCall == [ids |-> None, fetch_raw |-> "None", store_fails |-> FALSE,
               response |-> Failure("none")]

MailInit ==
    /\ mail_docs = [d \in DocumentIds |-> NoDocument]
    /\ mail_pc = "idle"
    /\ mail_call = NoMailCall

\* Ingest commits a message: the document becomes live and its blobs are written.
MailIngest(d) ==
    /\ mail_pc = "idle"
    /\ ~mail_docs[d].live
    /\ mail_docs' = [mail_docs EXCEPT ![d] =
                        [live |-> TRUE, data |-> Some(WellFormedBlob), raw |-> TRUE]]
    /\ UNCHANGED <<mail_pc, mail_call>>
    /\ UNCHANGED other_than_mail

\* A delete removes the document from the collection.
MailDelete(d) ==
    /\ mail_pc = "idle"
    /\ mail_docs[d].live
    /\ mail_docs' = [mail_docs EXCEPT ![d] = NoDocument]
    /\ UNCHANGED <<mail_pc, mail_call>>
    /\ UNCHANGED other_than_mail

\* The store is damaged: the MESSAGE_DATA blob of an intact live document is lost
\* (None) or replaced.
MailDamageData(d, data) ==
    /\ mail_pc = "idle"
    /\ mail_docs[d] = [live |-> TRUE, data |-> Some(WellFormedBlob), raw |-> TRUE]
    /\ mail_docs' = [mail_docs EXCEPT ![d].data = data]
    /\ UNCHANGED <<mail_pc, mail_call>>
    /\ UNCHANGED other_than_mail

\* The store is damaged: the MESSAGE_RAW blob of an intact live document is lost.
MailDamageRaw(d) ==
    /\ mail_pc = "idle"
    /\ mail_docs[d] = [live |-> TRUE, data |-> Some(WellFormedBlob), raw |-> TRUE]
    /\ mail_docs' = [mail_docs EXCEPT ![d].raw = FALSE]
    /\ UNCHANGED <<mail_pc, mail_call>>
    /\ UNCHANGED other_than_mail

\* A mail_get request is served.
MailGet(ids, fetch_raw, store_fails) ==
    /\ mail_pc = "idle"
    /\ mail_call' = [ids |-> ids, fetch_raw |-> fetch_raw, store_fails |-> store_fails,
                     response |-> mail_get(mail_docs, ids, fetch_raw, store_fails)]
    /\ mail_pc' = "responded"
    /\ UNCHANGED mail_docs
    /\ UNCHANGED other_than_mail

\* The caller has taken the response.
MailRespond ==
    /\ mail_pc = "responded"
    /\ mail_pc' = "idle"
    /\ mail_call' = NoMailCall
    /\ UNCHANGED mail_docs
    /\ UNCHANGED other_than_mail

MailNext ==
    \/ \E d \in DocumentIds : MailIngest(d)
    \/ \E d \in DocumentIds : MailDelete(d)
    \/ \E d \in DocumentIds, data \in {None} \cup {Some(b) : b \in DamagedBlobs} :
          MailDamageData(d, data)
    \/ \E d \in DocumentIds : MailDamageRaw(d)
    \/ \E ids \in RequestIds, fetch_raw \in FetchRaw, store_fails \in BOOLEAN :
          MailGet(ids, fetch_raw, store_fails)
    \/ MailRespond

(***************************************************************************)
(* The JSON header transforms (mail/get.rs, lines 1119-1243).  A JSONValue *)
(* is a tagged tuple: <<"Null">>, <<"String", s>>, <<"Array", list>> or    *)
(* <<"Object", map>>.                                                      *)
(***************************************************************************)
Null == <<"Null">>

String(s) == <<"String", s>>

Array(list) == <<"Array", list>>

Object(map) == <<"Object", map>>

is_array(value) == value[1] = "Array"

\* list.pop().unwrap_or_default(): the last element, Null for an empty list.
Mut_pop_unwrap_or_default(list) == IF list = <<>> THEN Null ELSE list[1]

pop_unwrap_or_default(list) == IF list = <<>> THEN Null ELSE list[Len(list)]

\* transform_json_string, lines 1225-1243.
transform_json_string(value, as_collection) ==
    IF is_array(value)
    THEN IF ~as_collection THEN pop_unwrap_or_default(value[2]) ELSE Array(value[2])
    ELSE IF value[1] = "String"
         THEN IF ~as_collection THEN value ELSE Array(<<value>>)
         ELSE Null

\* transform_json_stringlist, lines 1203-1223.
transform_json_stringlist(value, is_collection, as_collection) ==
    IF is_array(value)
    THEN IF ~as_collection
         THEN IF ~is_collection
              THEN Array(value[2])
              ELSE pop_unwrap_or_default(value[2])
         ELSE IF is_collection
              THEN Array(value[2])
              ELSE Array(<<Array(value[2])>>)
    ELSE Null

\* The closure list_to_group, lines 1152-1157.
Mut_list_to_group(list) == Object([name |-> String("group"), addresses |-> Array(list)])

list_to_group(list) == Object([name |-> Null, addresses |-> Array(list)])

\* Lines 1173-1178: what one element of the list adds to the flattened addresses.
group_addresses(group) ==
    IF /\ group[1] = "Object"
       /\ "addresses" \in DOMAIN group[2]
       /\ is_array(group[2].addresses)
    THEN group[2].addresses[2]
    ELSE <<>>

\* The closure flatten_group, lines 1170-1182.
RECURSIVE flatten_group(_)
flatten_group(list) ==
    IF list = <<>>
    THEN <<>>
    ELSE group_addresses(Head(list)) \o flatten_group(Tail(list))

\* Lines 1160-1164: every Array field becomes a list holding one group.
RECURSIVE fields_to_group(_)
fields_to_group(list) ==
    IF list = <<>>
    THEN <<>>
    ELSE <<IF is_array(Head(list))
           THEN Array(<<list_to_group(Head(list)[2])>>)
           ELSE Head(list)>> \o fields_to_group(Tail(list))

\* Lines 1186-1194: every Array field is flattened.
RECURSIVE fields_flatten(_)
fields_flatten(list) ==
    IF list = <<>>
    THEN <<>>
    ELSE <<IF is_array(Head(list))
           THEN Array(flatten_group(Head(list)[2]))
           ELSE Head(list)>> \o fields_flatten(Tail(list))

\* transform_json_emailaddress, lines 1119-1201.
transform_json_emailaddress(value, is_grouped, is_collection, as_grouped, as_collection) ==
    IF ~is_array(value)
    THEN Null
    ELSE LET same_grouping == (as_grouped /\ is_grouped) \/ (~as_grouped /\ ~is_grouped)
             same_shape == (is_collection /\ as_collection)
                               \/ (~is_collection /\ ~as_collection)
             popped == pop_unwrap_or_default(value[2])
             list == IF as_collection /\ ~is_collection
                     THEN <<Array(value[2])>>
                     ELSE IF ~as_collection /\ is_collection
                          THEN IF is_array(popped) THEN popped[2] ELSE <<>>
                          ELSE value[2]
         IN  IF same_grouping /\ same_shape
             THEN Array(value[2])
             ELSE IF same_grouping
                  THEN IF as_collection /\ ~is_collection
                       THEN Array(<<Array(value[2])>>)
                       ELSE popped
                  ELSE IF as_grouped /\ ~is_grouped
                       THEN Array(IF ~as_collection
                                  THEN <<list_to_group(list)>>
                                  ELSE fields_to_group(list))
                       ELSE Array(IF ~as_collection
                                  THEN flatten_group(list)
                                  ELSE fields_flatten(list))

\* The helpers of tests::test_json_transform, lines 1335-1341 and 1343-1351.
make_email(name, addr) == Object([name |-> String(name), email |-> String(addr)])

make_group(name, addresses) == Object([name |-> name, addresses |-> addresses])

\* Stored header values.  A collection holds one element per instance of the
\* header, none to two of them.
CollectionsOf(instances) ==
    {Array(<<>>)} \cup {Array(<<x>>) : x \in instances}
        \cup {Array(<<x, y>>) : x, y \in instances}

Texts == {String("hello"), String("world")}

StringLists == {Array(list) : list \in UNION {SeqsOfLen(Texts, n) : n \in 0..MaxValues}}

Emails == {make_email("John Doe", "jdoe@domain.com"),
           make_email("Jane Smith", "jsmith@test.com")}

AddressLists == UNION {SeqsOfLen(Emails, n) : n \in 0..MaxValues}

FlatLists == {Array(list) : list \in AddressLists}

\* One group, or an unnamed group followed by a named one.
GroupLists ==
    {Array(<<>>)}
        \cup {Array(<<make_group(Null, Array(list))>>) : list \in AddressLists}
        \cup UNION {{Array(<<make_group(Null, Array(SubSeq(list, 1, k))),
                             make_group(String("Friends"),
                                        Array(SubSeq(list, k + 1, Len(list))))>>) :
                         k \in 0..Len(list)} : list \in AddressLists}

\* A header that is absent is passed as Null, lines 965-966 and 978-979.
StoredStrings == {Null} \cup Texts \cup CollectionsOf(Texts)

\* <<value, is_collection>>
StoredStringLists ==
    {<<Null, FALSE>>} \cup {<<v, FALSE>> : v \in StringLists}
        \cup {<<v, TRUE>> : v \in CollectionsOf(StringLists)}

\* <<value, is_grouped, is_collection>>
StoredAddresses ==
    {<<Null, FALSE, FALSE>>}
        \cup {<<v, FALSE, FALSE>> : v \in FlatLists}
        \cup {<<v, FALSE, TRUE>> : v \in CollectionsOf(FlatLists)}
        \cup {<<v, TRUE, FALSE>> : v \in GroupLists}
        \cup {<<v, TRUE, TRUE>> : v \in CollectionsOf(GroupLists)}

NoJsonCall == [fn |-> "none", value |-> Null, is_grouped |-> FALSE, is_collection |-> FALSE,
               as_grouped |-> FALSE, as_collection |-> FALSE, result |-> Null]

NoJsonBack == <<"None">>

JsonInit ==
    /\ json_call = NoJsonCall
    /\ json_back = NoJsonBack

TransformString ==
    /\ json_call = NoJsonCall
    /\ \E value \in StoredStrings, as_collection \in BOOLEAN :
          json_call' = [fn |-> "transform_json_string", value |-> value,
                        is_grouped |-> FALSE, is_collection |-> is_array(value),
                        as_grouped |-> FALSE, as_collection |-> as_collection,
                        result |-> transform_json_string(value, as_collection)]
    /\ UNCHANGED <<json_back, other_than_json>>

TransformStringList ==
    /\ json_call = NoJsonCall
    /\ \E stored \in StoredStringLists, as_collection \in BOOLEAN :
          json_call' = [fn |-> "transform_json_stringlist", value |-> stored[1],
                        is_grouped |-> FALSE, is_collection |-> stored[2],
                        as_grouped |-> FALSE, as_collection |-> as_collection,
                        result |-> transform_json_stringlist(stored[1], stored[2],
                                                             as_collection)]
    /\ UNCHANGED <<json_back, other_than_json>>

TransformEmailAddress ==
    /\ json_call = NoJsonCall
    /\ \E stored \in StoredAddresses, as_grouped \in BOOLEAN, as_collection \in BOOLEAN :
          json_call' = [fn |-> "transform_json_emailaddress", value |-> stored[1],
                        is_grouped |-> stored[2], is_collection |-> stored[3],
                        as_grouped |-> as_grouped, as_collection |-> as_collection,
                        result |-> transform_json_emailaddress(stored[1], stored[2],
                                                               stored[3], as_grouped,
                                                               as_collection)]
    /\ UNCHANGED <<json_back, other_than_json>>

\* The result of a conversion is converted back to the form it was stored in.
TransformBack ==
    /\ json_call.fn = "transform_json_emailaddress"
    /\ json_back = NoJsonBack
    /\ json_back' = transform_json_emailaddress(json_call.result, json_call.as_grouped,
                                                json_call.as_collection,
                                                json_call.is_grouped,
                                                json_call.is_collection)
    /\ UNCHANGED <<json_call, other_than_json>>

\* One value is converted, and its result may be converted back.
JsonNext ==
    \/ TransformString
    \/ TransformStringList
    \/ TransformEmailAddress
    \/ TransformBack

(***************************************************************************)
(* impl_unsigned_leb128 at each width (leb128.rs, lines 15-76).  A value   *)
(* of an integer type is the sequence of its bits, lowest first, as long   *)
(* as the type is wide; a byte is a number below 256.                      *)
(***************************************************************************)
IntTypes == {"u16", "u32", "u64", "u128", "usize"}

\* $int_ty::BITS, lines 72-76; usize is that of a 64-bit target.
BITS(int_ty) ==
    CASE int_ty = "u16" -> 16
      [] int_ty = "u32" -> 32
      [] int_ty = "u64" -> 64
      [] int_ty = "u128" -> 128
      [] int_ty = "usize" -> 64

\* value < 0x80
below_0x80(value) == \A i \in 8..Len(value) : value[i] = 0

\* (value & 0x7f) as u8
low_7_bits(value) ==
    value[1] + 2 * value[2] + 4 * value[3] + 8 * value[4] + 16 * value[5]
        + 32 * value[6] + 64 * value[7]

\* value >>= 7
Mut_shr_7(value) == [i \in 1..Len(value) |-> IF i + 8 <= Len(value) THEN value[i + 8] ELSE 0]

shr_7(value) == [i \in 1..Len(value) |-> IF i + 7 <= Len(value) THEN value[i + 7] ELSE 0]

\* to_leb128_bytes, lines 19-30: the bytes pushed to `out`.
RECURSIVE impl_to_leb128_bytes(_)
impl_to_leb128_bytes(value) ==
    IF below_0x80(value)
    THEN <<low_7_bits(value)>>
    ELSE <<low_7_bits(value) + 128>> \o impl_to_leb128_bytes(shr_7(value))

\* result |= (byte as $int_ty) << shift: the bits of the byte shifted out of the
\* type are lost.  shift stays below the width for the bytes to_leb128_bytes pushes.
or_shifted(result, byte, shift) ==
    [i \in 1..Len(result) |->
        IF i - 1 >= shift /\ i - 1 - shift < 8 /\ (byte \div (2 ^ (i - 1 - shift))) % 2 = 1
        THEN 1
        ELSE result[i]]

\* from_leb128_bytes, lines 33-48.
RECURSIVE impl_bytes_loop(_, _, _, _)
impl_bytes_loop(slice, read, result, shift) ==
    IF read >= Len(slice)
    THEN None
    ELSE LET byte == slice[read + 1]
         IN  IF byte < 128
             THEN Some([value |-> or_shifted(result, byte, shift),
                        position |-> read + 1])
             ELSE impl_bytes_loop(slice, read + 1,
                                  or_shifted(result, byte % 128, shift), shift + 7)

Zero(int_ty) == [i \in 1..BITS(int_ty) |-> 0]

impl_from_leb128_bytes(int_ty, slice) == impl_bytes_loop(slice, 0, Zero(int_ty), 0)

\* from_leb128_it, lines 51-67: the value and the iterator after it.
RECURSIVE impl_it_loop(_, _, _)
impl_it_loop(it, result, shift) ==
    IF it = <<>>
    THEN None
    ELSE IF Head(it) < 128
         THEN Some([value |-> or_shifted(result, Head(it), shift), it |-> Tail(it)])
         ELSE impl_it_loop(Tail(it), or_shifted(result, Head(it) % 128, shift), shift + 7)

impl_from_leb128_it(int_ty, it) == impl_it_loop(it, Zero(int_ty), 0)

\* 2^k - 1 and 2^k at a width: 0, 1, 127, 128, 16383, 16384, ..., the MAX of every
\* type that fits, and the type's own MAX.
Ones(k, width) == [i \in 1..width |-> IF i <= k THEN 1 ELSE 0]

Pow(k, width) == [i \in 1..width |-> IF i = k + 1 THEN 1 ELSE 0]

\* 0x5555... and 0xAAAA...
Alternating(first, width) == [i \in 1..width |-> (i + first) % 2]

LebValues(int_ty) ==
    {Ones(k, BITS(int_ty)) : k \in 0..BITS(int_ty)}
        \cup {Pow(k, BITS(int_ty)) : k \in 0..(BITS(int_ty) - 1)}
        \cup {Alternating(first, BITS(int_ty)) : first \in {0, 1}}

\* Values that are encoded one after the other.
LebFew(int_ty) ==
    {Zero(int_ty), Ones(7, BITS(int_ty)), Pow(7, BITS(int_ty)),
     Ones(BITS(int_ty), BITS(int_ty)), Alternating(0, BITS(int_ty))}

LebSequences(int_ty) ==
    {<<value>> : value \in LebValues(int_ty)}
        \cup UNION {SeqsOfLen(LebFew(int_ty), n) : n \in 2..MaxEncoded}

NoLebCall == [int_ty |-> "none", values |-> <<>>, out |-> <<>>, emitted |-> <<>>,
              from_bytes |-> None, it |-> <<>>, decoded |-> <<>>, exhausted |-> FALSE]

LebInit == leb_call = NoLebCall

RECURSIVE encode_all(_)
encode_all(values) ==
    IF values = <<>>
    THEN <<>>
    ELSE impl_to_leb128_bytes(Head(values)) \o encode_all(Tail(values))

\* The values are written to one buffer with to_leb128_bytes, the buffer is read
\* with from_leb128_bytes, and an iterator over it is created.
LebEncode ==
    /\ leb_call = NoLebCall
    /\ \E int_ty \in IntTypes :
          \E values \in LebSequences(int_ty) :
             leb_call' = [int_ty |-> int_ty, values |-> values,
                          out |-> encode_all(values),
                          emitted |-> [i \in 1..Len(values) |->
                                          Len(impl_to_leb128_bytes(values[i]))],
                          from_bytes |-> impl_from_leb128_bytes(int_ty, encode_all(values)),
                          it |-> encode_all(values), decoded |-> <<>>,
                          exhausted |-> FALSE]
    /\ UNCHANGED other_than_leb

\* One from_leb128_it call on the iterator.
LebDecode ==
    /\ leb_call # NoLebCall
    /\ ~leb_call.exhausted
    /\ Len(leb_call.decoded) < Len(leb_call.values)
    /\ LET next == impl_from_leb128_it(leb_call.int_ty, leb_call.it)
       IN  leb_call' = IF next = None
                       THEN [leb_call EXCEPT !.exhausted = TRUE, !.it = <<>>]
                       ELSE [leb_call EXCEPT !.decoded = Append(@, Unwrap(next).value),
                                             !.it = Unwrap(next).it]
    /\ UNCHANGED other_than_leb

LebNext == LebEncode \/ LebDecode

(***************************************************************************)
(* An Entry written and read back (raft.rs, lines 50-92).                  *)
(***************************************************************************)
\* Account ids and change ids of one, two and three varint bytes.
WireAccounts == {1, 128, 16384}

WireChanges == [change_id : {0, 128, 16384}, collection : {0, 8}]

WireEntries ==
    [raft_id : {RaftId(1, 1), RaftId(2, 0)}, account_id : WireAccounts,
     changes : UNION {SeqsOfLen(WireChanges, n) : n \in 0..MaxChanges}]

NoWireCall == [entry |-> [raft_id |-> RaftId(0, 0), account_id |-> 0, changes |-> <<>>],
               bytes |-> <<>>, read |-> None, cut |-> -1, read_cut |-> None]

WireInit == wire_call = NoWireCall

\* entry.serialize(), then Entry::deserialize on the bytes with the entry's RaftId.
EntryWriteRead ==
    /\ wire_call = NoWireCall
    /\ \E entry \in WireEntries :
          wire_call' = [entry |-> entry, bytes |-> Entry_serialize(entry),
                        read |-> Entry_deserialize(Entry_serialize(entry), entry.raft_id),
                        cut |-> -1, read_cut |-> None]
    /\ UNCHANGED other_than_wire

\* Entry::deserialize on the first `cut` bytes of the serialized entry.
EntryReadCut ==
    /\ wire_call # NoWireCall
    /\ wire_call.cut = -1
    /\ \E cut \in 0..(Len(wire_call.bytes) - 1) :
          wire_call' = [wire_call EXCEPT
                           !.cut = cut,
                           !.read_cut = Entry_deserialize(SubSeq(wire_call.bytes, 1, cut),
                                                          wire_call.entry.raft_id)]
    /\ UNCHANGED other_than_wire

WireNext == EntryWriteRead \/ EntryReadCut

(***************************************************************************)
(* The truncated exponential backoff (peer.rs, lines 95-113).              *)
(***************************************************************************)
\* The cap on the delay, in milliseconds.
RPC_MAX_BACKOFF_MS == 180000

\* gen_range(0..1000), line 110: the least, a middle and the greatest value.
Jitters == {0, 500, 999}

\* How the build treats integer overflow: "checked" panics, "wrapping" wraps.
Builds == {"checked", "wrapping"}

\* A u64 of 2^30 or more; each is greater than RPC_MAX_BACKOFF_MS + 999.
Huge == 2 ^ 30

\* 2u64.pow(connection_attempts), line 109, as far as the comparison with the cap
\* tells powers apart.  2^64 does not fit a u64: a build with overflow checks
\* panics, one without wraps to 0.
pow_2u64(exp, build) ==
    IF exp < 30
    THEN 2 ^ exp
    ELSE IF exp < 64
         THEN Huge
         ELSE IF build = "checked" THEN -1 ELSE 0

\* Lines 108-112.
next_attempt_ms(attempts, jitter, build) ==
    IF pow_2u64(attempts, build) = -1
    THEN -1
    ELSE IF pow_2u64(attempts, build) + jitter < RPC_MAX_BACKOFF_MS
         THEN pow_2u64(attempts, build) + jitter
         ELSE RPC_MAX_BACKOFF_MS

NoBackoff ==
    [connection_attempts |-> 0, jitter |-> 0, next_attempt_ms |-> 0, outcome |-> "none"]

BackoffInit == backoff = NoBackoff

\* Lines 95-113: connect_peer failed once more and the delay is computed.
BackoffConnectErr ==
    /\ backoff.outcome # "panic"
    /\ backoff.connection_attempts < MaxFailures
    /\ \E jitter \in Jitters, build \in Builds :
          LET attempts == backoff.connection_attempts + 1
              delay == next_attempt_ms(attempts, jitter, build)
          IN  backoff' = [connection_attempts |-> attempts, jitter |-> jitter,
                          next_attempt_ms |-> IF delay = -1 THEN 0 ELSE delay,
                          outcome |-> IF delay = -1 THEN "panic" ELSE "delay"]
    /\ UNCHANGED other_than_backoff

\* Lines 132-138: a gossip message restarts the count.
BackoffGossip ==
    /\ backoff.outcome = "delay"
    /\ backoff' = NoBackoff
    /\ UNCHANGED other_than_backoff

BackoffNext == BackoffConnectErr \/ BackoffGossip

(***************************************************************************)
(* The backoff wait with its clock (peer.rs, lines 115-166).  Time is      *)
(* counted in ticks, TicksPerMs of them to the millisecond.                *)
(***************************************************************************)
\* timer.elapsed().as_millis() as u64, line 159: whole milliseconds.
as_millis(ticks) == ticks \div TicksPerMs

NoWait == [pc |-> "retry", delay_ms |-> 0, next_attempt_ms |-> 0, timer |-> 0, now |-> 0,
           connection_attempts |-> 0, message |-> "none", rejected |-> 0,
           failed_calls |-> 0]

WaitInit == wait = NoWait

\* Lines 95-113: connect_peer failed for the pending message, the delay is
\* computed and the 'wait loop is entered; the clock of the model starts here.
WaitEnter ==
    /\ wait = NoWait
    /\ \E delay \in 1..MaxDelayMs, attempts \in 1..RPC_MAX_CONNECT_ATTEMPTS :
          wait' = [NoWait EXCEPT !.pc = "wait", !.delay_ms = delay,
                                 !.next_attempt_ms = delay,
                                 !.connection_attempts = attempts,
                                 !.message = "pending"]
    /\ UNCHANGED other_than_wait

\* The instant the timeout of line 120 fires in the current turn of the loop.
Deadline == wait.timer + wait.next_attempt_ms * TicksPerMs

\* Time passes while the task is suspended at the await of line 124.
WaitTick ==
    /\ wait.pc = "wait"
    /\ wait.now < Deadline
    /\ wait' = [wait EXCEPT !.now = @ + 1]
    /\ UNCHANGED other_than_wait

\* Lines 152-155: the timeout fired, a connect attempt follows.
WaitElapsed ==
    /\ wait.pc = "wait"
    /\ wait.now = Deadline
    /\ wait' = [wait EXCEPT !.pc = "retry"]
    /\ UNCHANGED other_than_wait

\* Lines 130-139: a FireAndForget with UpdatePeers or Ping arrives.
WaitAdopt ==
    /\ wait.pc = "wait"
    /\ wait.now < Deadline
    /\ wait' = [wait EXCEPT !.pc = "retry", !.message = "gossip",
                            !.connection_attempts = 0]
    /\ UNCHANGED other_than_wait

\* Lines 141-144 and 158-164: any other message arrives, failed() is called on it
\* and the time the turn took is taken off the delay.
WaitRefuse ==
    /\ wait.pc = "wait"
    /\ wait.now < Deadline
    /\ wait.rejected < MaxRejected
    /\ LET elapsed_ms == as_millis(wait.now - wait.timer)
       IN  wait' = IF wait.next_attempt_ms > elapsed_ms
                   THEN [wait EXCEPT !.rejected = @ + 1, !.failed_calls = @ + 1,
                                     !.next_attempt_ms = @ - elapsed_ms,
                                     !.timer = wait.now]
                   ELSE [wait EXCEPT !.rejected = @ + 1, !.failed_calls = @ + 1,
                                     !.pc = "retry"]
    /\ UNCHANGED other_than_wait

WaitLoopNext == WaitEnter \/ WaitTick \/ WaitElapsed \/ WaitAdopt \/ WaitRefuse

(***************************************************************************)
(* copy_blob (api/blob.rs, lines 164-217).                                 *)
(***************************************************************************)
SUPERUSER_ID == 0

BlobIds == {1, 2}

BlobAccounts == {1, 2}

\* The mail documents of an account that hold blobs.
BlobDocuments == BlobAccounts \X {1}

\* The accounts the caller's ACL token lists.
MemberOf == {{1}, {2}, {1, 2}, {SUPERUSER_ID, 1}}

\* blob_account_has_access: one of the accounts holds a link to the blob.
blob_account_has_access(links, blob, accounts) == links[blob] \cap accounts # {}

\* blob_document_has_access: one of the listed mail documents of the account
\* holds the blob.
blob_document_has_access(owners, blob, account, shared_ids) ==
    \E d \in shared_ids : <<account, d>> \in owners[blob]

\* ACLToken::is_member
is_member(member_of, account) == account \in member_of

\* Lines 175-176 negated: no sharing is needed.
Mut_has_direct_access(links, blob, member_of) == TRUE

has_direct_access(links, blob, member_of) ==
    blob_account_has_access(links, blob, member_of) \/ is_member(member_of, SUPERUSER_ID)

\* The test of lines 175-201 for one blob: TRUE when the blob is linked.  `shared`
\* is what mail_shared_messages returned for the source account.
may_copy(links, owners, shared, blob, from_account_id, member_of) ==
    \/ has_direct_access(links, blob, member_of)
    \/ /\ shared # None
       /\ blob_document_has_access(owners, blob, from_account_id, Unwrap(shared))

\* The loop of lines 174-204 over the blob ids left; `linked` are the blobs
\* blob_link_ephimeral was called for.
RECURSIVE copy_loop(_, _, _, _, _, _, _)
copy_loop(blob_ids, links, owners, shared, from_account_id, member_of, done) ==
    IF blob_ids = <<>>
    THEN done
    ELSE LET blob_id == Head(blob_ids)
         IN  copy_loop(Tail(blob_ids), links, owners, shared, from_account_id, member_of,
                       IF may_copy(links, owners, shared, blob_id, from_account_id,
                                   member_of)
                       THEN [done EXCEPT !.copied = @ \cup {blob_id},
                                         !.linked = @ \cup {blob_id}]
                       ELSE [done EXCEPT !.not_copied = @ \cup {blob_id}])

\* copy_blob, lines 167-216; the maps copied and not_copied by their keys, every
\* value of not_copied being SetError::forbidden.
copy_blob(blob_ids, links, owners, shared, from_account_id, member_of) ==
    copy_loop(blob_ids, links, owners, shared, from_account_id, member_of,
              [copied |-> {}, not_copied |-> {}, linked |-> {}])

NoCopyCall == [blob_ids |-> <<>>, links |-> [b \in BlobIds |-> {}],
               owners |-> [b \in BlobIds |-> {}], shared |-> None,
               account_id |-> 0, from_account_id |-> 0, member_of |-> {},
               copied |-> {}, not_copied |-> {}, linked |-> {}, called |-> FALSE]

CopyInit == copy_call = NoCopyCall

\* One copy_blob request against some content of the blob store.
CopyBlob ==
    /\ ~copy_call.called
    /\ \E blob_ids \in UNION {SeqsOfLen(BlobIds, n) : n \in 0..MaxBlobIds},
          links \in [BlobIds -> SUBSET BlobAccounts],
          owners \in [BlobIds -> SUBSET BlobDocuments],
          shared \in {None, Some({}), Some({1})},
          account_id \in BlobAccounts, from_account_id \in BlobAccounts,
          member_of \in MemberOf :
          LET response == copy_blob(blob_ids, links, owners, shared, from_account_id,
                                    member_of)
          IN  copy_call' = [blob_ids |-> blob_ids, links |-> links, owners |-> owners,
                            shared |-> shared, account_id |-> account_id,
                            from_account_id |-> from_account_id,
                            member_of |-> member_of, copied |-> response.copied,
                            not_copied |-> response.not_copied,
                            linked |-> response.linked, called |-> TRUE]
    /\ UNCHANGED other_than_copy

CopyNext == CopyBlob

(***************************************************************************)
(* Writers that call assign_raft_id and then insert_raft_entries, and a    *)
(* follower that fetches with get_raft_entries (raft.rs, lines 199-292).   *)
(***************************************************************************)
\* The RaftIds handed to a thread whose entry is not stored yet.
Unwritten(t) ==
    {handed[i].raft_id : i \in {j \in 1..Len(handed) : handed[j].thread = t}}
        \ {id \in RaftIds \cup assigned : serialize_raft(id) \in DOMAIN logs}

\* A writer enters assign_raft_id once the entry of its last RaftId is stored.
WriterLoadTerm(t) ==
    /\ Unwritten(t) = {}
    /\ LoadTerm(t)

WriterFetchAdd(t) == FetchAddIndex(t)

\* Lines 279-292: the writer stores the entry of the RaftId it was handed.
WriterInsert(t) ==
    /\ Unwritten(t) # {}
    /\ \E id \in Unwritten(t) :
          InsertRaftEntries(<<[raft_id |-> id, account_id |-> 1, changes |-> <<>>]>>)

\* The RaftId the follower holds: that of the last entry it was sent.
FollowerLast ==
    LET sent_entries == entries_call.result.entries
    IN  IF sent_entries = <<>>
        THEN entries_call.from_raft_id
        ELSE sent_entries[Len(sent_entries)].raft_id

\* The leader answers the follower with get_raft_entries(last, n).
FollowerFetch ==
    \E num_entries \in 1..MaxLogKeys : GetRaftEntries(FollowerLast, num_entries)

WritersNext ==
    \/ \E t \in Threads : WriterLoadTerm(t)
    \/ \E t \in Threads : WriterFetchAdd(t)
    \/ \E t \in Threads : WriterInsert(t)
    \/ FollowerFetch

(***************************************************************************)
(* Header properties of mail_get (mail/get.rs, lines 300-329, 394-404,     *)
(* 652-654) with add_rfc_header (lines 944-988) and add_raw_header (lines  *)
(* 1048-1117).  The message has one non-RFC header, X-Foo, found through   *)
(* the outline, and one RFC header, From, stored in properties.            *)
(***************************************************************************)
\* The bytes of an X-Foo header between its offsets.
RawTexts == {" a ", "b"}

\* str::trim of lines 1067-1068.
trim(bytes) == IF bytes = " a " THEN "a" ELSE bytes

\* header_to_jmap_text: a text becomes a string, a collection a list of strings.
header_to_jmap_text(texts, all) ==
    IF all
    THEN Array([i \in 1..Len(texts) |-> String(texts[i])])
    ELSE IF texts = <<>> THEN Null ELSE String(texts[Len(texts)])

\* Lines 1048-1117 for the form Raw.
add_raw_header(offsets, all) ==
    LET skip == IF ~all /\ Len(offsets) > 1 THEN Len(offsets) - 1 ELSE 0
        header_values == [i \in 1..(Len(offsets) - skip) |-> trim(offsets[skip + i])]
    IN  header_to_jmap_text(header_values, all)

\* The key of a stored RFC header: MailHeaderProperty::new_rfc(header, form, all).
new_rfc(header, form, all) == <<header, form, all>>

\* HashMap::remove: the value under the key, if any, and the map without the key.
remove(map, key) ==
    IF key \in DOMAIN map
    THEN [value |-> Some(map[key]), map |-> [k \in DOMAIN map \ {key} |-> map[k]]]
    ELSE [value |-> None, map |-> map]

\* The removals of lines 951-984, tried in order; the first key present is taken.
remove_first(message_headers, keys, n) ==
    LET present == {i \in 1..Len(keys) : keys[i] \in DOMAIN message_headers}
        first == CHOOSE i \in present : \A j \in present : i <= j
    IN  IF present = {}
        THEN [value |-> Null, key |-> None, map |-> message_headers]
        ELSE [value |-> message_headers[keys[first]], key |-> Some(keys[first]),
              map |-> remove(message_headers, keys[first]).map]

\* Lines 944-988 for an address header; the result and the headers left.
add_rfc_header(message_headers, header, form, all) ==
    LET keys == IF form \in {"Addresses", "GroupedAddresses"}
                THEN <<new_rfc(header, "Addresses", FALSE), new_rfc(header, "Addresses", TRUE),
                       new_rfc(header, "GroupedAddresses", FALSE),
                       new_rfc(header, "GroupedAddresses", TRUE)>>
                ELSE <<new_rfc(header, form, all), new_rfc(header, form, ~all)>>
        found == remove_first(message_headers, keys, Len(keys))
        is_collection == found.key # None /\ Unwrap(found.key)[3]
        is_grouped == found.key # None /\ Unwrap(found.key)[2] = "GroupedAddresses"
    IN  [value |-> transform_json_emailaddress(found.value, is_grouped, is_collection,
                                               form = "GroupedAddresses", all),
         message_headers |-> found.map]

\* The properties of a request: header:X-Foo:raw[:all], from, and
\* header:From:asAddresses[:all] or header:From:asGroupedAddresses[:all].
HeaderProperties ==
    {[name |-> "header", header |-> "X-Foo", form |-> "Raw", all |-> all] : all \in BOOLEAN}
        \cup {[name |-> "from", header |-> "From", form |-> "Addresses", all |-> FALSE]}
        \cup {[name |-> "header", header |-> "From", form |-> form, all |-> all] :
                 form \in {"Addresses", "GroupedAddresses"}, all \in BOOLEAN}

\* Lines 303-329, 351-356 and 394-404: the value of one property, and the message
\* after the lookup.
property_value(property, message_data) ==
    IF property.form = "Raw"
    THEN LET offsets == remove(message_data.headers, property.header)
         IN  [value |-> IF offsets.value # None
                        THEN add_raw_header(Unwrap(offsets.value), property.all)
                        ELSE Null,
              message |-> [message_data EXCEPT !.headers = offsets.map]]
    ELSE LET added == add_rfc_header(message_data.properties, property.header,
                                     property.form, property.all)
         IN  [value |-> added.value,
              message |-> [message_data EXCEPT !.properties = added.message_headers]]

\* Lines 300-302 and 652-654: a property whose entry is vacant is looked up, and
\* its value is entered unless it is null.
RECURSIVE properties_loop(_, _, _, _)
properties_loop(properties, i, message_data, result) ==
    IF i > Len(properties)
    THEN result
    ELSE IF properties[i] \in DOMAIN result
         THEN properties_loop(properties, i + 1, message_data, result)
         ELSE LET looked_up == property_value(properties[i], message_data)
              IN  properties_loop(properties, i + 1, looked_up.message,
                                  IF looked_up.value = Null
                                  THEN result
                                  ELSE [p \in DOMAIN result \cup {properties[i]} |->
                                           IF p = properties[i]
                                           THEN looked_up.value ELSE result[p]])

get_properties(properties, message_data) ==
    properties_loop(properties, 1, message_data, <<>>)

\* The outer-message headers of the outline: X-Foo absent, or one or two of it.
OutlineHeaders ==
    {<<>>} \cup {[h \in {"X-Foo"} |-> offsets] :
                    offsets \in SeqsOfLen(RawTexts, 1) \cup SeqsOfLen(RawTexts, 2)}

\* The stored From header: absent, or under the key of its form.
StoredFrom ==
    {<<>>} \cup
    {[k \in {new_rfc("From", IF s[2] THEN "GroupedAddresses" ELSE "Addresses", s[3])} |->
         s[1]] : s \in {a \in StoredAddresses : a[1] # Null /\ Len(a[1][2]) = 1}}

HeaderRequests == UNION {SeqsOfLen(HeaderProperties, n) : n \in 1..MaxProperties}

NoHeaderCall == [message |-> [headers |-> <<>>, properties |-> <<>>],
                 properties |-> <<>>, result |-> <<>>]

HeadersInit == header_call = NoHeaderCall

\* One message of one Email/get request.
HeaderGet ==
    /\ header_call = NoHeaderCall
    /\ \E headers \in OutlineHeaders, stored \in StoredFrom, properties \in HeaderRequests :
          LET message_data == [headers |-> headers, properties |-> stored]
          IN  header_call' = [message |-> message_data, properties |-> properties,
                              result |-> get_properties(properties, message_data)]
    /\ UNCHANGED other_than_headers

HeadersNext == HeaderGet

(***************************************************************************)
(* mail_get beside writes to the Mail collection of the account            *)
(* (mail/get.rs): the document ids are read first (lines 198-200), each    *)
(* message is read in the loop (lines 232-656) and the state is read last  *)
(* (lines 661-664).  A write commits its documents and its change record   *)
(* at once; the state token is the id of the last change.                  *)
(***************************************************************************)
\* get_state: the id of the last change committed to the collection.
get_state(log) == Len(log)

\* The ids a request names; None asks for every message.
SyncRequests == {None} \cup {Some(ids) : ids \in SUBSET DocumentIds \ {{}}}

NoSyncGet == [pc |-> "idle", ids |-> None, document_ids |-> {}, pending |-> {},
              list |-> [d \in {} |-> 0], not_found |-> {}, state |-> 0]

SyncInit ==
    /\ sync_docs = [d \in DocumentIds |-> 0]
    /\ sync_log = <<>>
    /\ sync_get = NoSyncGet

\* A write to the collection: a message is ingested, or its keywords or mailboxes
\* are changed; the change is appended to the log in the same batch.
SyncWrite(d) ==
    /\ Len(sync_log) < MaxWrites
    /\ sync_docs' = [sync_docs EXCEPT ![d] = @ + 1]
    /\ sync_log' = Append(sync_log, sync_docs')
    /\ UNCHANGED <<sync_get, other_than_sync>>

\* Lines 198-226: the live documents are read, and the ids to answer are fixed.
SyncGetDocumentIds(ids) ==
    /\ sync_get.pc = "idle"
    /\ LET document_ids == {d \in DocumentIds : sync_docs[d] > 0}
       IN  sync_get' = [NoSyncGet EXCEPT !.pc = "reading", !.ids = ids,
                                         !.document_ids = document_ids,
                                         !.pending = IF ids # None
                                                     THEN Unwrap(ids) ELSE document_ids]
    /\ UNCHANGED <<sync_docs, sync_log, other_than_sync>>

\* Lines 232-656: one turn of the loop; an id that is not among the documents read
\* is reported as not found, the others are read from the store as they are now.
SyncGetMessage(d) ==
    /\ sync_get.pc = "reading"
    /\ d \in sync_get.pending
    /\ sync_get' =
          IF d \notin sync_get.document_ids
          THEN [sync_get EXCEPT !.pending = @ \ {d}, !.not_found = @ \cup {d}]
          ELSE [sync_get EXCEPT !.pending = @ \ {d},
                                !.list = [x \in DOMAIN @ \cup {d} |->
                                             IF x = d THEN sync_docs[d] ELSE @[x]]]
    /\ UNCHANGED <<sync_docs, sync_log, other_than_sync>>

\* Lines 659-667: the state is read and the response is built.
SyncGetState ==
    /\ sync_get.pc = "reading"
    /\ sync_get.pending = {}
    /\ sync_get' = [sync_get EXCEPT !.pc = "responded", !.state = get_state(sync_log)]
    /\ UNCHANGED <<sync_docs, sync_log, other_than_sync>>

\* The caller has taken the response.
SyncRespond ==
    /\ sync_get.pc = "responded"
    /\ sync_get' = NoSyncGet
    /\ UNCHANGED <<sync_docs, sync_log, other_than_sync>>

SyncNext ==
    \/ \E d \in DocumentIds : SyncWrite(d)
    \/ \E ids \in SyncRequests : SyncGetDocumentIds(ids)
    \/ \E d \in DocumentIds : SyncGetMessage(d)
    \/ SyncGetState
    \/ SyncRespond

(***************************************************************************)
(* add_body_structure (mail/get.rs, lines 704-803).  A MessageStructure is *)
(* <<"Part", part_id>>, <<"List", part_list>> or <<"MultiPart", part_id,   *)
(* part_list>>.  Every part id resolves in mime_parts, so no mime_parts.get *)
(* returns None.                                                           *)
(***************************************************************************)
Part(part_id) == <<"Part", part_id>>
List(part_list) == <<"List", part_list>>
MultiPart(part_id, part_list) == <<"MultiPart", part_id, part_list>>

\* add_body_part: the part object of a MIME part, without subParts.  Only the part
\* id and the index in mime_parts are kept of it.
add_body_part(part_id, mime_index) ==
    [partId |-> part_id, mime |-> mime_index, subParts |-> None]

\* Lines 791 and 800 with the sub-parts attached in reverse order.
Mut_insert_subParts(part, subparts) ==
    [part EXCEPT !.subParts = Some([i \in 1..Len(subparts) |->
                                       subparts[Len(subparts) + 1 - i]])]

\* Lines 791 and 800: part.insert("subParts", JSONValue::Array(subparts)).
insert_subParts(part, subparts) == [part EXCEPT !.subParts = Some(subparts)]

\* The structures of exactly n nodes, and the part lists of n nodes in all.
RECURSIVE StructuresOf(_), PartListsOf(_)
StructuresOf(n) ==
    (IF n = 1 THEN {Part(0), Part(1)} ELSE {})
        \cup {List(part_list) : part_list \in PartListsOf(n - 1)}
        \cup {MultiPart(2, part_list) : part_list \in PartListsOf(n - 1)}

PartListsOf(n) ==
    IF n = 0
    THEN {<<>>}
    ELSE UNION {{<<first>> \o rest : first \in StructuresOf(k), rest \in PartListsOf(n - k)} :
                   k \in 1..n}

BodyStructures == UNION {StructuresOf(n) : n \in 1..MaxNodes}

NoBody == [pc |-> "idle", body_structure |-> List(<<>>), parts_stack |-> <<>>,
           stack |-> <<>>, part_list_iter |-> <<>>, subparts |-> <<>>, result |-> None]

BodyInit == body = NoBody

\* Vec::pop.
Last(s) == s[Len(s)]
Front(s) == SubSeq(s, 1, Len(s) - 1)

\* Lines 711-754: the match on the root of the structure.
BodyStart ==
    /\ body.pc = "idle"
    /\ \E body_structure \in BodyStructures :
          body' =
              IF body_structure[1] = "Part"
              THEN [NoBody EXCEPT !.pc = "done", !.body_structure = body_structure,
                                  !.result = Some(add_body_part(Some(body_structure[2]),
                                                                body_structure[2] + 1))]
              ELSE IF body_structure[1] = "List"
              THEN [NoBody EXCEPT !.pc = "loop", !.body_structure = body_structure,
                                  !.parts_stack = <<add_body_part(None, 0)>>,
                                  !.part_list_iter = body_structure[2]]
              ELSE [NoBody EXCEPT !.pc = "loop", !.body_structure = body_structure,
                                  !.parts_stack = <<add_body_part(None, 0),
                                                    add_body_part(None,
                                                                  body_structure[2] + 1)>>,
                                  !.stack = <<[part_list_iter |-> <<>>, subparts |-> <<>>]>>,
                                  !.part_list_iter = body_structure[3]]
    /\ UNCHANGED other_than_body

\* Lines 762-787: one turn of the while loop over the part list.
BodyWhile ==
    /\ body.pc = "loop"
    /\ body.part_list_iter # <<>>
    /\ LET part == Head(body.part_list_iter)
           rest == Tail(body.part_list_iter)
       IN  body' =
               IF part[1] = "Part"
               THEN [body EXCEPT !.part_list_iter = rest,
                                 !.subparts = Append(@, add_body_part(Some(part[2]),
                                                                      part[2] + 1))]
               ELSE IF part[1] = "MultiPart"
               THEN [body EXCEPT !.parts_stack = Append(@, add_body_part(None, part[2] + 1)),
                                 !.stack = Append(@, [part_list_iter |-> rest,
                                                      subparts |-> body.subparts]),
                                 !.part_list_iter = part[3],
                                 !.subparts = <<>>]
               ELSE [body EXCEPT !.part_list_iter = rest]
    /\ UNCHANGED other_than_body

\* Lines 789-794: the part list is exhausted and a frame is popped; unwrap panics
\* when parts_stack is empty.
BodyPop ==
    /\ body.pc = "loop"
    /\ body.part_list_iter = <<>>
    /\ body.stack # <<>>
    /\ body' =
          IF body.parts_stack = <<>>
          THEN [body EXCEPT !.pc = "panic", !.stack = Front(@)]
          ELSE LET frame == Last(body.stack)
                   prev_part == insert_subParts(Last(body.parts_stack), body.subparts)
               IN  [body EXCEPT !.stack = Front(@),
                                !.parts_stack = Front(@),
                                !.part_list_iter = frame.part_list_iter,
                                !.subparts = Append(frame.subparts, prev_part)]
    /\ UNCHANGED other_than_body

\* Lines 795-802: no frame is left; the root part takes the sub-parts.
BodyBreak ==
    /\ body.pc = "loop"
    /\ body.part_list_iter = <<>>
    /\ body.stack = <<>>
    /\ body' =
          IF body.parts_stack = <<>>
          THEN [body EXCEPT !.pc = "panic"]
          ELSE [body EXCEPT !.pc = "done",
                            !.parts_stack = Front(@),
                            !.result = Some(insert_subParts(Last(body.parts_stack),
                                                            body.subparts))]
    /\ UNCHANGED other_than_body

BodyNext ==
    \/ BodyStart
    \/ BodyWhile
    \/ BodyPop
    \/ BodyBreak

(***************************************************************************)
(* Specifications.                                                         *)
(***************************************************************************)
Init == PeerInit /\ StoreInit /\ PendingInit /\ EntriesInit /\ AssignInit /\ RepeatInit
        /\ MailInit /\ JsonInit /\ LebInit /\ WireInit /\ BackoffInit /\ WaitInit /\ CopyInit
        /\ HeadersInit /\ SyncInit /\ BodyInit

PeerSpec == Init /\ [][PeerNext]_vars

\* The runtime schedules the task, its timers fire and connect_peer returns; nothing
\* makes the peer answer a request sent with send_rpc.
FairPeerSpec == PeerSpec /\ WF_vars(TaskStep)

RaftSpec == Init /\ [][RaftNext]_vars

ChangesSpec == Init /\ [][ChangesNext]_vars

PendingSpec == Init /\ [][PendingNext]_vars

EntriesSpec == Init /\ [][EntriesNext]_vars

AssignSpec == Init /\ [][AssignNext]_vars

RepeatSpec == Init /\ [][RepeatNext]_vars

MailSpec == Init /\ [][MailNext]_vars

JsonSpec == Init /\ [][JsonNext]_vars

LebSpec == Init /\ [][LebNext]_vars

WireSpec == Init /\ [][WireNext]_vars

BackoffSpec == Init /\ [][BackoffNext]_vars

WaitLoopSpec == Init /\ [][WaitLoopNext]_vars

CopySpec == Init /\ [][CopyNext]_vars

WritersSpec == Init /\ [][WritersNext]_vars

HeadersSpec == Init /\ [][HeadersNext]_vars

SyncSpec == Init /\ [][SyncNext]_vars

\* add_body_structure runs to its end once it is called.
BodySpec == Init /\ [][BodyNext]_vars /\ WF_vars(BodyNext)

(***************************************************************************)
(* Properties of the peer RPC task.                                        *)
(***************************************************************************)
\* Outcomes a message has received: failed() calls and sends on its reply channel.
Outcomes(m) == failed_calls[m.id] + Len(reply[m.id])

\* C1: every NeedResponse message the task took from its mailbox and has discarded
\* got exactly one outcome: the peer's response or Response::None on its reply
\* channel, or a failed() call.
C1_ExactlyOneOutcome ==
    \A m \in discarded : m.kind = "NeedResponse" => Outcomes(m) = 1

\* C2: while the connection attempts for the pending message keep failing, failed()
\* has been invoked on it once the attempt count has reached
\* RPC_MAX_CONNECT_ATTEMPTS and not before, and it is invoked on nothing afterwards
\* (the pending message of the later attempts is the placeholder).
C2_FailedOnceAtMax ==
    pc \in {"retry", "wait"} =>
        /\ failed_calls[taken.id] =
               (IF connection_attempts >= RPC_MAX_CONNECT_ATTEMPTS THEN 1 ELSE 0)
        /\ failed_calls[Placeholder.id] = 0

\* C2 witness: an attempt later than the RPC_MAX_CONNECT_ATTEMPTS-th has failed and
\* the pending message has been reported failed once.
C2_Witness ==
    /\ pc = "wait"
    /\ connection_attempts > RPC_MAX_CONNECT_ATTEMPTS
    /\ failed_calls[taken.id] = 1

\* C3: a message on which failed() was invoked is never passed to send_rpc, and
\* neither is the Request::None placeholder substituted for it.
C3_NoStaleSend ==
    \A m \in sent : m # Placeholder /\ m.request # "None" /\ failed_calls[m.id] = 0

\* C3 witness: a message was reported failed, a later connect succeeded, and a
\* message received afterwards was passed to send_rpc.
C3_Witness ==
    /\ \E m \in discarded : m.kind # "none" /\ failed_calls[m.id] = 1
    /\ Placeholder \in discarded
    /\ conn_
    /\ sent # {}

\* C4: after any RPC transport error (a failed connect_peer or a failed send_rpc)
\* and until the next successful connect, the task holds no socket and the online
\* watch channel holds false.
C4_OfflineAfterError ==
    rpc_error => (~conn_ /\ ~online)

\* C5: a request passed to send_rpc is abandoned in bounded time even when the peer
\* never replies: the task always leaves the await of send_rpc.
C5_SendAbandoned ==
    (pc = "send_rpc") ~> (pc # "send_rpc")

(***************************************************************************)
(* Properties of the raft log and of the change log.                       *)
(***************************************************************************)
\* The RaftIds stored in the raft log.
StoredRaftIds(cf) == {deserialize_raft(k) : k \in {x \in DOMAIN cf : IsRaftKey(x)}}

\* C6: once an entry is stored in the raft log under a RaftId, no later
\* insert_raft_entries call changes the payload (account_id, changes) stored under
\* that RaftId.
C6_PayloadImmutable ==
    [][\A k \in DOMAIN logs :
           IsRaftKey(k) =>
               /\ k \in DOMAIN logs'
               /\ Entry_deserialize(logs'[k], deserialize_raft(k))
                      = Entry_deserialize(logs[k], deserialize_raft(k))]_vars

\* C7: after merging any sequence of change records, every document id in
\* tombstones is also in deletes.
C7_TombstonesInDeletes ==
    pending.tombstones \subseteq pending.deletes

\* C8: after merging any sequence of change records, no document id is in both
\* inserts and updates.
C8_InsertsUpdatesDisjoint ==
    pending.inserts \cap pending.updates = {}

\* C9 as stated: every ChangeId a call with from_change_id = None and only_ids =
\* false returns is strictly greater than any ChangeId an earlier call on the same
\* account and collection returned at the same commit point.
C9_NoneOnlyNewer ==
    (/\ changes_call.account # 0
     /\ changes_call.from_change_id = None
     /\ ~changes_call.only_ids)
        => \A c \in changes_call.result.changes : c > changes_call.earlier_now

\* C9 amended: every ChangeId a call with from_change_id = Some(m) and only_ids =
\* false returns is strictly greater than any ChangeId the earlier calls on the same
\* account and collection returned, when m is at least the greatest of those.
C9_FromOnlyNewer ==
    (/\ changes_call.account # 0
     /\ changes_call.from_change_id # None
     /\ ~changes_call.only_ids
     /\ Unwrap(changes_call.from_change_id) >= changes_call.earlier)
        => \A c \in changes_call.result.changes : c > changes_call.earlier

\* C9 witness: earlier calls returned ChangeIds, and a call from the greatest of
\* them or later returned the ChangeIds appended since.
C9_Witness ==
    /\ changes_call.account # 0
    /\ changes_call.from_change_id # None
    /\ ~changes_call.only_ids
    /\ changes_call.earlier >= 0
    /\ Unwrap(changes_call.from_change_id) >= changes_call.earlier
    /\ changes_call.result.changes # {}

\* The stored RaftId next to `key` on the side `op` asks for, `key` excluded.
StrictNeighbor(cf, key, op) ==
    LET side == IF op = "next"
                THEN {r \in StoredRaftIds(cf) : RaftIdLess(key, r)}
                ELSE {r \in StoredRaftIds(cf) : RaftIdLess(r, key)}
    IN  IF side = {}
        THEN None
        ELSE IF op = "next"
             THEN Some(CHOOSE r \in side : \A o \in side : r = o \/ RaftIdLess(r, o))
             ELSE Some(CHOOSE r \in side : \A o \in side : r = o \/ RaftIdLess(o, r))

\* C10: get_next_raft_id(k) returns the smallest stored RaftId strictly greater than
\* k, get_prev_raft_id(k) the largest stored RaftId strictly smaller than k, each
\* None when there is none, and neither returns k itself.
C10_StrictNeighbors ==
    [][raft_lookup' # raft_lookup =>
           raft_lookup'.result = StrictNeighbor(logs, raft_lookup'.key, raft_lookup'.op)]_vars

(***************************************************************************)
(* Properties of get_raft_entries.                                         *)
(***************************************************************************)
\* (term, index) order of RaftIds.
RaftIdBefore(a, b) == a.term < b.term \/ (a.term = b.term /\ a.index < b.index)

\* The RaftIds of a set in ascending (term, index) order.
RECURSIVE InLogOrder(_)
InLogOrder(ids) ==
    IF ids = {}
    THEN <<>>
    ELSE LET first == CHOOSE r \in ids : \A o \in ids : r = o \/ RaftIdBefore(r, o)
         IN  <<first>> \o InLogOrder(ids \ {first})

\* The smaller of two numbers.
Min(a, b) == IF a < b THEN a ELSE b

\* The first n stored entries after `from`, or of the whole log when from.is_none().
FirstEntries(cf, from, n) ==
    LET ids == IF is_none(from)
               THEN StoredRaftIds(cf)
               ELSE {r \in StoredRaftIds(cf) : RaftIdBefore(from, r)}
        order == InLogOrder(ids)
    IN  [i \in 1..Min(n, Len(order)) |->
            Unwrap(Entry_deserialize(cf[serialize_raft(order[i])], order[i]))]

\* C11: for n >= 1, get_raft_entries(from, n) returns, in ascending (term, index)
\* order and skipping none, the first min(n, available) stored raft entries whose
\* RaftId is strictly greater than from, or the first min(n, available) entries of
\* the whole log when from.is_none(); no key without the raft prefix contributes.
C11_FirstEntriesAfter ==
    [][(entries_call' # entries_call /\ entries_call'.num_entries >= 1) =>
           entries_call'.result =
               Ok(FirstEntries(logs, entries_call'.from_raft_id,
                               entries_call'.num_entries))]_vars

\* C11 witness: a call from a stored RaftId returned as many of the entries stored
\* after it as it asked for.
C11_Witness ==
    /\ entries_call.num_entries >= 1
    /\ ~is_none(entries_call.from_raft_id)
    /\ entries_call.from_raft_id \in StoredRaftIds(logs)
    /\ entries_call.result = Ok(FirstEntries(logs, entries_call.from_raft_id,
                                             entries_call.num_entries))
    /\ Len(entries_call.result.entries) = entries_call.num_entries

(***************************************************************************)
(* Properties of get_pending_changes.                                      *)
(***************************************************************************)
\* The ChangeIds the change log of (account, collection) holds.
ChangeIdsOf(cf, account, collection) ==
    {k[4] : k \in {x \in DOMAIN cf :
                      x[1] = CHANGE_KEY_PREFIX /\ x[2] = account /\ x[3] = collection}}

\* Those strictly greater than `from`, or all of them when `from` is absent.
ChangeIdsAfter(cf, account, collection, from) ==
    {c \in ChangeIdsOf(cf, account, collection) : from = None \/ c > Unwrap(from)}

\* C12: get_pending_changes(account, collection, from, only_ids) puts in `changes`
\* exactly the ChangeIds stored in the change log of (account, collection) that are
\* strictly greater than from, or all of them when from is absent, never a ChangeId
\* of another account or collection, and the same set whatever only_ids is.
C12_ExactChangeIds ==
    [][changes_call' # changes_call =>
           changes_call'.result.changes =
               ChangeIdsAfter(logs, changes_call'.account, changes_call'.collection,
                              changes_call'.from_change_id)]_vars

\* C12 witness: a call from a ChangeId returned some of the stored ChangeIds of its
\* log and left out others.
C12_Witness ==
    /\ changes_call.account # 0
    /\ changes_call.from_change_id # None
    /\ changes_call.result.changes # {}
    /\ changes_call.result.changes =
           ChangeIdsAfter(logs, changes_call.account, changes_call.collection,
                          changes_call.from_change_id)
    /\ changes_call.result.changes #
           ChangeIdsOf(logs, changes_call.account, changes_call.collection)

(***************************************************************************)
(* Properties of assign_raft_id.                                           *)
(***************************************************************************)
\* C13: the RaftIds concurrent assign_raft_id calls return are pairwise distinct,
\* and the indices handed out within the term are consecutive integers, none
\* skipped and none handed out twice.
C13_DistinctConsecutive ==
    /\ \A i, j \in 1..Len(handed) : i # j => handed[i].raft_id # handed[j].raft_id
    /\ {handed[i].raft_id.index : i \in 1..Len(handed)} = 1..Len(handed)
    /\ \A i \in 1..Len(handed) : handed[i].raft_id.term = raft_term

\* C13 witness: two threads were inside assign_raft_id at once, and calls of
\* different threads have returned.
C13_Witness ==
    /\ Len(handed) >= 2
    /\ handed[1].thread # handed[2].thread
    /\ \E t \in Threads : assign_pc[t] = "loaded"
    /\ \E t \in Threads : assign_pc[t] = "loaded" /\ t # handed[Len(handed)].thread

(***************************************************************************)
(* Properties of a repeated merge.                                         *)
(***************************************************************************)
\* C14: merging a change record into a PendingChanges accumulator a second time,
\* right after merging it once, leaves inserts, updates, deletes, tombstones and
\* changes equal to what they were after the first merge.
C14_MergeIdempotent ==
    /\ merged_twice.inserts = merged_once.inserts
    /\ merged_twice.updates = merged_once.updates
    /\ merged_twice.deletes = merged_once.deletes
    /\ merged_twice.tombstones = merged_once.tombstones
    /\ merged_twice.changes = merged_once.changes

(***************************************************************************)
(* Properties of mail_get.                                                 *)
(***************************************************************************)
\* The requested id names a live document.
IsLiveId(jmap_id) == mail_docs[jmap_id.document_id].live

\* The requested ids that name a live document (live = TRUE) or do not (FALSE), in
\* the order of the request, duplicates kept.
RECURSIVE IdsWhere(_, _)
IdsWhere(ids, live) ==
    IF ids = <<>>
    THEN <<>>
    ELSE (IF IsLiveId(Head(ids)) = live THEN <<Head(ids)>> ELSE <<>>)
             \o IdsWhere(Tail(ids), live)

\* C15: a mail_get request that supplies ids and succeeds has |list| + |notFound| =
\* |ids|: each requested id, duplicates counted, yields one element, in notFound
\* when its document id is not live and in list otherwise.
C15_ListPlusNotFound ==
    (mail_pc = "responded" /\ mail_call.ids # None /\ mail_call.response.outcome = "Ok") =>
        LET ids == Unwrap(mail_call.ids)
            response == mail_call.response
            found == IdsWhere(ids, TRUE)
            missing == IdsWhere(ids, FALSE)
        IN  /\ Len(response.list) + Len(response.notFound) = Len(ids)
            /\ response.notFound = [i \in 1..Len(missing) |-> to_jmap_string(missing[i])]
            /\ [i \in 1..Len(response.list) |-> response.list[i].id]
                   = [i \in 1..Len(found) |-> to_jmap_string(found[i])]

\* C15 witness: a successful request listed a live document and a missing one.
C15_Witness ==
    /\ mail_pc = "responded"
    /\ mail_call.ids # None
    /\ mail_call.response.outcome = "Ok"
    /\ Len(mail_call.response.list) = 1
    /\ Len(mail_call.response.notFound) = 1

\* The MESSAGE_DATA blob is missing, undecodable, or its length prefix exceeds the
\* bytes that follow it.
BadData(data) ==
    \/ data = None
    \/ from_leb128_bytes(Unwrap(data)) = None
    \/ LET length == Unwrap(from_leb128_bytes(Unwrap(data)))
       IN  \/ length.position + length.value > Len(Unwrap(data))
           \/ MessageData_deserialize(SubSeq(Unwrap(data), length.position + 1,
                                             length.position + length.value)) = None

\* C16: when the MESSAGE_DATA blob of a requested live document is missing,
\* undecodable or carries an invalid length prefix, mail_get ends with the error
\* DataCorruption: it does not panic and returns no list.
C16_DataCorruption ==
    (/\ mail_pc = "responded"
     /\ mail_call.ids # None
     /\ Len(Unwrap(mail_call.ids)) <= max_objects_in_get
     /\ ~mail_call.store_fails
     /\ \E i \in 1..Len(Unwrap(mail_call.ids)) :
            LET document == mail_docs[Unwrap(mail_call.ids)[i].document_id]
            IN  document.live /\ BadData(document.data))
        => mail_call.response = Failure("DataCorruption")

(***************************************************************************)
(* Properties of the JSON header transforms.                               *)
(***************************************************************************)
\* What a call is to return when only the shape, single value or collection,
\* differs between the stored and the requested form.
CollectionAxis(call) ==
    IF call.is_collection /\ ~call.as_collection
    THEN call.value[2] # <<>> => call.result = call.value[2][Len(call.value[2])]
    ELSE IF ~call.is_collection /\ call.as_collection
         THEN call.result = Array(<<call.value>>)
         ELSE call.result = call.value

\* C17: along the collection axis transform_json_string, transform_json_stringlist
\* and transform_json_emailaddress agree: a stored collection requested as a single
\* value gives the value of the last instance, a stored single value requested as a
\* collection gives a one-element list wrapping it, and equal shapes give the
\* stored value unchanged.
C17_CollectionAxisAgrees ==
    (/\ json_call # NoJsonCall
     /\ json_call.value # Null
     /\ json_call.as_grouped = json_call.is_grouped) => CollectionAxis(json_call)

\* A collection of two different instances was requested as a single value, and
\* the last one came back.
C17_Witness ==
    /\ json_call.fn = "transform_json_emailaddress"
    /\ json_call.is_collection /\ ~json_call.as_collection
    /\ json_call.as_grouped = json_call.is_grouped
    /\ Len(json_call.value[2]) = 2
    /\ json_call.value[2][1] # json_call.value[2][2]
    /\ json_call.result = json_call.value[2][2]

\* The addresses of the groups of a list, one group after the other.
RECURSIVE ConcatAddresses(_)
ConcatAddresses(groups) ==
    IF groups = <<>>
    THEN <<>>
    ELSE Head(groups)[2].addresses[2] \o ConcatAddresses(Tail(groups))

\* One header instance in the other grouping.
Regrouped(instance, as_grouped) ==
    IF as_grouped
    THEN Array(<<Object([name |-> Null, addresses |-> instance])>>)
    ELSE Array(ConcatAddresses(instance[2]))

\* What a call is to return when the grouping differs between the stored and the
\* requested form.
GroupAxis(call) ==
    IF call.is_collection
    THEN IF call.as_collection
         THEN /\ is_array(call.result)
              /\ Len(call.result[2]) = Len(call.value[2])
              /\ \A i \in 1..Len(call.value[2]) :
                     call.result[2][i] = Regrouped(call.value[2][i], call.as_grouped)
         ELSE call.value[2] # <<>> =>
                  call.result = Regrouped(call.value[2][Len(call.value[2])],
                                          call.as_grouped)
    ELSE IF call.as_collection
         THEN call.result = Array(<<Regrouped(call.value, call.as_grouped)>>)
         ELSE call.result = Regrouped(call.value, call.as_grouped)

\* C18: along the group axis transform_json_emailaddress converts each header
\* instance: a flat address list requested as grouped becomes a list holding the
\* one group {name: null, addresses: the list}, a list of groups requested as flat
\* becomes the groups' addresses concatenated in group order, and a flat value
\* converted to grouped and back to flat is the original value.
C18_GroupAxisPerInstance ==
    (/\ json_call.fn = "transform_json_emailaddress"
     /\ json_call.value # Null
     /\ json_call.as_grouped # json_call.is_grouped) =>
        /\ GroupAxis(json_call)
        /\ (/\ json_back # NoJsonBack
            /\ ~json_call.is_grouped
            /\ json_call.as_collection = json_call.is_collection) =>
               json_back = json_call.value

\* A collection of two flat lists, the last of two addresses, went to grouped and
\* back.
C18_Witness ==
    /\ json_call.fn = "transform_json_emailaddress"
    /\ ~json_call.is_grouped /\ json_call.as_grouped
    /\ json_call.is_collection /\ json_call.as_collection
    /\ Len(json_call.value[2]) = 2
    /\ Len(json_call.value[2][2][2]) = 2
    /\ json_call.result # json_call.value
    /\ json_back = json_call.value

(***************************************************************************)
(* Properties of LEB128 at each width.                                     *)
(***************************************************************************)
\* The bytes a value takes: one for every 7 bits up to its highest set bit, and
\* one for 0.
EncodedLen(value) ==
    LET set == {i \in 1..Len(value) : value[i] = 1}
        highest == IF set = {} THEN 0 ELSE CHOOSE i \in set : \A j \in set : j <= i
    IN  IF highest = 0 THEN 1 ELSE (highest + 6) \div 7

RECURSIVE SumTo(_, _)
SumTo(lengths, n) == IF n = 0 THEN 0 ELSE lengths[n] + SumTo(lengths, n - 1)

\* C19: at each width, from_leb128_bytes on the bytes to_leb128_bytes pushed
\* for a value yields that value and the number of bytes pushed, each
\* from_leb128_it call yields the next value encoded and takes exactly its bytes
\* from the iterator, so values encoded one after the other are decoded in order.
C19_Leb128RoundTrip ==
    leb_call # NoLebCall =>
        LET taken_bytes == SumTo(leb_call.emitted, Len(leb_call.decoded))
        IN  /\ \A i \in 1..Len(leb_call.values) :
                   leb_call.emitted[i] = EncodedLen(leb_call.values[i])
            /\ Len(leb_call.out) = SumTo(leb_call.emitted, Len(leb_call.values))
            /\ leb_call.from_bytes = Some([value |-> leb_call.values[1],
                                           position |-> leb_call.emitted[1]])
            /\ ~leb_call.exhausted
            /\ leb_call.decoded = SubSeq(leb_call.values, 1, Len(leb_call.decoded))
            /\ leb_call.it = SubSeq(leb_call.out, taken_bytes + 1, Len(leb_call.out))

\* 128 and u128::MAX, two and nineteen bytes, were encoded one after the other and
\* both read back.
C19_Witness ==
    /\ leb_call.int_ty = "u128"
    /\ Len(leb_call.values) = 2
    /\ leb_call.emitted = <<2, 19>>
    /\ leb_call.decoded = leb_call.values
    /\ leb_call.it = <<>>

(***************************************************************************)
(* Properties of the Entry wire format.                                    *)
(***************************************************************************)
\* C20: Entry::deserialize on the bytes of entry.serialize(), with the entry's
\* RaftId, returns an Entry with the same account_id and the same changes in the
\* same order, and returns None on every strict prefix of those bytes.
C20_EntryRoundTrip ==
    wire_call # NoWireCall =>
        /\ wire_call.read = Some(wire_call.entry)
        /\ wire_call.cut # -1 =>
               /\ wire_call.cut < Len(wire_call.bytes)
               /\ wire_call.read_cut = None

\* An entry of two changes with three-byte ids was read back, and its bytes less
\* the last one were refused.
C20_Witness ==
    /\ Len(wire_call.entry.changes) = 2
    /\ wire_call.entry.changes[2].change_id = 16384
    /\ wire_call.entry.account_id = 16384
    /\ wire_call.read = Some(wire_call.entry)
    /\ wire_call.cut = Len(wire_call.bytes) - 1
    /\ wire_call.read_cut = None

(***************************************************************************)
(* Properties of the backoff.                                              *)
(***************************************************************************)
\* min(2^n, RPC_MAX_BACKOFF_MS) and min(2^n + 1000, RPC_MAX_BACKOFF_MS).
LeastDelay(n) == IF n < 30 /\ 2 ^ n < RPC_MAX_BACKOFF_MS THEN 2 ^ n ELSE RPC_MAX_BACKOFF_MS

GreatestDelay(n) ==
    IF n < 30 /\ 2 ^ n + 1000 < RPC_MAX_BACKOFF_MS
    THEN 2 ^ n + 1000
    ELSE RPC_MAX_BACKOFF_MS

\* C21: after the N-th consecutive failed connection attempt a delay is computed,
\* and it lies between min(2^N, RPC_MAX_BACKOFF_MS) and
\* min(2^N + 1000, RPC_MAX_BACKOFF_MS) milliseconds.
C21_BackoffDelayBounds ==
    backoff.connection_attempts >= 1 =>
        /\ backoff.outcome = "delay"
        /\ LeastDelay(backoff.connection_attempts) <= backoff.next_attempt_ms
        /\ backoff.next_attempt_ms <= GreatestDelay(backoff.connection_attempts)

(***************************************************************************)
(* Properties of the backoff wait.                                         *)
(***************************************************************************)
\* C22: of the messages received during the backoff wait, a gossip message becomes
\* the pending one, resets the attempt counter and is followed by a connect attempt
\* at once; every other message gets failed(), and the connect attempt that follows
\* comes no later than the computed delay after the wait began.
C22_BackoffWait ==
    /\ wait.failed_calls = wait.rejected
    /\ wait.pc = "retry" /\ wait.message = "gossip" => wait.connection_attempts = 0
    /\ wait.pc = "retry" /\ wait.message = "pending" =>
           wait.now <= wait.delay_ms * TicksPerMs

\* C23: once every sender of the mailbox has been dropped, the task eventually
\* terminates, whatever it was doing and however the peer behaves.
C23_TerminatesWhenClosed == (~senders) ~> (pc = "exit")

(***************************************************************************)
(* Properties of copy_blob.                                                *)
(***************************************************************************)
\* One of the caller's accounts holds the blob, the caller is a member of the
\* superuser, or a mail document of the source account shared with the caller
\* holds it.
MayAccess(call, blob) ==
    \/ \E a \in call.member_of : a \in call.links[blob]
    \/ SUPERUSER_ID \in call.member_of
    \/ /\ call.shared # None
       /\ \E d \in Unwrap(call.shared) : <<call.from_account_id, d>> \in call.owners[blob]

Requested(call) == {call.blob_ids[i] : i \in 1..Len(call.blob_ids)}

\* C24: copy_blob links a blob to the target account only if the caller may access
\* it; every other requested blob id is in notCopied and gets no link, and every
\* requested blob id is in exactly one of copied and notCopied.
C24_CopyOnlyWithAccess ==
    copy_call.called =>
        /\ \A blob \in copy_call.linked : MayAccess(copy_call, blob)
        /\ \A blob \in Requested(copy_call) :
              /\ MayAccess(copy_call, blob) <=> blob \in copy_call.copied
              /\ ~MayAccess(copy_call, blob) <=> blob \in copy_call.not_copied
              /\ blob \in copy_call.not_copied => blob \notin copy_call.linked
              /\ blob \in copy_call.copied <=> blob \notin copy_call.not_copied
        /\ copy_call.copied \cup copy_call.not_copied = Requested(copy_call)

\* One blob was copied through a shared mail document alone, the other refused.
C24_Witness ==
    /\ copy_call.called
    /\ copy_call.copied = {1} /\ copy_call.not_copied = {2}
    /\ copy_call.linked = {1}
    /\ \A a \in copy_call.member_of : a \notin copy_call.links[1]
    /\ SUPERUSER_ID \notin copy_call.member_of

(***************************************************************************)
(* Properties of concurrent writers and the follower.                      *)
(***************************************************************************)
\* C25: whenever get_raft_entries has returned an entry with index i of a term,
\* every entry of that term with an assigned index smaller than i is stored, so a
\* follower fetching from its last RaftId skips no entry.
C25_NoGapObserved ==
    \A i \in 1..Len(entries_call.result.entries) :
        \A id \in assigned :
            (/\ id.term = entries_call.result.entries[i].raft_id.term
             /\ id.index < entries_call.result.entries[i].raft_id.index) =>
                serialize_raft(id) \in DOMAIN logs

(***************************************************************************)
(* Properties of the header lookups of mail_get.                           *)
(***************************************************************************)
\* The value a result holds for a property: null when it has no entry.
ValueIn(result, property) ==
    IF property \in DOMAIN result THEN result[property] ELSE Null

\* C26: the value returned for a header property is the value the property has
\* when it is the only property requested, whatever else the request names.
C26_HeaderValueIndependent ==
    \A i \in 1..Len(header_call.properties) :
        ValueIn(header_call.result, header_call.properties[i])
            = ValueIn(get_properties(<<header_call.properties[i]>>, header_call.message),
                      header_call.properties[i])

\* C27: get_raft_entries(from, n) never returns more than n entries.
C27_AtMostNumEntries ==
    Len(entries_call.result.entries) <= entries_call.num_entries

(***************************************************************************)
(* Properties of mail_get beside writes.                                   *)
(***************************************************************************)
\* The version of a document a response shows: 0 when the document is reported as
\* not found or is not listed.
Shown(get, d) == IF d \in DOMAIN get.list THEN get.list[d] ELSE 0

\* The documents as of a state token.
AsOf(log, state) == IF state = 0 THEN [d \in DocumentIds |-> 0] ELSE log[state]

\* C28: the state of a response is not newer than its data: every document the
\* request asks for is shown at least as new as it was at the returned state, so
\* no change covered by the state is missing from list and notFound.
C28_StateNotNewerThanData ==
    sync_get.pc = "responded" =>
        \A d \in (IF sync_get.ids # None THEN Unwrap(sync_get.ids) ELSE DocumentIds) :
            Shown(sync_get, d) >= AsOf(sync_log, sync_get.state)[d]

\* C29: after merging any sequence of change records, no document id is in both
\* inserts and deletes: a delete of a pending insert cancels it, and an insert takes
\* its id out of deletes.
C29_InsertsDeletesDisjoint ==
    pending.inserts \cap pending.deletes = {}

\* Two records were merged, and ids are left both in inserts and in deletes.
C29_Witness ==
    /\ Cardinality(pending.changes) = MaxRecords
    /\ pending.inserts # {}
    /\ pending.deletes # {}

(***************************************************************************)
(* Properties of add_body_structure.                                       *)
(***************************************************************************)
\* The part objects of a part list, by structural recursion: one for every Part and
\* one for every MultiPart, which lists those of its own part list; a List in a part
\* list yields none.
RECURSIVE PartObjects(_)
PartObjects(part_list) ==
    IF part_list = <<>>
    THEN <<>>
    ELSE LET first == Head(part_list)
         IN  (IF first[1] = "Part"
              THEN <<add_body_part(Some(first[2]), first[2] + 1)>>
              ELSE IF first[1] = "MultiPart"
                   THEN <<[partId |-> None, mime |-> first[2] + 1,
                           subParts |-> Some(PartObjects(first[3]))]>>
                   ELSE <<>>)
                 \o PartObjects(Tail(part_list))

\* The tree returned holds the part objects of the structure.
HoldsPartObjects(result, body_structure) ==
    IF body_structure[1] = "Part"
    THEN <<result>> = PartObjects(<<body_structure>>)
    ELSE result.subParts = Some(PartObjects(IF body_structure[1] = "List"
                                            THEN body_structure[2]
                                            ELSE <<body_structure>>))

\* C30: add_body_structure terminates, never pops its parts stack when it is empty,
\* and returns a tree with exactly one part object for every Part and MultiPart that
\* is not inside a List of a part list, the sub-parts in the order of the structure.
C30_BodyStructureTree ==
    /\ [](body.pc # "panic")
    /\ [](body.pc = "loop" => Len(body.parts_stack) = Len(body.stack) + 1)
    /\ [](body.pc = "done" => HoldsPartObjects(Unwrap(body.result), body.body_structure))
    /\ <>(body.pc = "done")

\* A structure with a List in the part list and a MultiPart that has a part was
\* walked to the end.
C30_Witness ==
    /\ body.pc = "done"
    /\ body.body_structure = List(<<List(<<>>), MultiPart(2, <<Part(1)>>)>>)

====
